---- MODULE Spec2Model ----
(***************************************************************************)
(* A model of the claim verifier of sparse-wiki-grounding                  *)
(* (src/src/wiki_grounding/verifier.py), the position model it consults    *)
(* (entity.py) and the lookups of the entity store it relies on (store.py).*)
(*                                                                         *)
(* Text is modelled as TLA+ strings, character by character: str.lower(),  *)
(* str.strip(), the substring test `a in b`, str.replace and the regular   *)
(* expressions of RELATION_PATTERNS are computed on the characters.        *)
(* Confidences are integers in units of 10^-6 (0.95 is 950000).            *)
(***************************************************************************)
EXTENDS Integers, Sequences, FiniteSets, TLC

(***************************************************************************)
(* Optional values: None is the empty tuple, Some(v) the one-element tuple.*)
(***************************************************************************)
None == << >>
Some(v) == << v >>
IsNone(o) == Len(o) = 0
IsSome(o) == Len(o) = 1
The(o) == o[1]

(***************************************************************************)
(* Strings                                                                 *)
(***************************************************************************)
UPPER == "ABCDEFGHIJKLMNOPQRSTUVWXYZ"
LOWER == "abcdefghijklmnopqrstuvwxyz"
DIGITS == "0123456789"

CharAt(s, i) == SubSeq(s, i, i)

UpperChars == { CharAt(UPPER, i) : i \in 1..Len(UPPER) }
LowerChars == { CharAt(LOWER, i) : i \in 1..Len(LOWER) }
DigitChars == { CharAt(DIGITS, i) : i \in 1..Len(DIGITS) }

LowerMap == [ c \in UpperChars |->
                CharAt(LOWER, CHOOSE i \in 1..Len(UPPER) : CharAt(UPPER, i) = c) ]
UpperMap == [ c \in LowerChars |->
                CharAt(UPPER, CHOOSE i \in 1..Len(LOWER) : CharAt(LOWER, i) = c) ]

LowerChar(c) == IF c \in UpperChars THEN LowerMap[c] ELSE c
UpperChar(c) == IF c \in LowerChars THEN UpperMap[c] ELSE c
IsAlpha(c) == c \in UpperChars \/ c \in LowerChars

\* str.lower()
RECURSIVE Lower(_)
Lower(s) ==
    IF Len(s) = 0 THEN ""
    ELSE LowerChar(CharAt(s, 1)) \o Lower(SubSeq(s, 2, Len(s)))

\* str.title(): a letter that follows a non-letter is upper-cased, every
\* other letter is lower-cased.
RECURSIVE TitleFrom(_, _)
TitleFrom(s, prevAlpha) ==
    IF Len(s) = 0 THEN ""
    ELSE LET c == CharAt(s, 1)
         IN  (IF prevAlpha THEN LowerChar(c) ELSE UpperChar(c))
                 \o TitleFrom(SubSeq(s, 2, Len(s)), IsAlpha(c))
Title(s) == TitleFrom(s, FALSE)

\* `needle in hay`
Contains(hay, needle) ==
    \E i \in 1..(Len(hay) - Len(needle) + 1) :
        SubSeq(hay, i, i + Len(needle) - 1) = needle

\* str.startswith
StartsWith(s, p) == Len(p) <= Len(s) /\ SubSeq(s, 1, Len(p)) = p

\* str.replace(c, "") for a single character c
RECURSIVE RemoveChar(_, _)
RemoveChar(s, c) ==
    IF Len(s) = 0 THEN ""
    ELSE (IF CharAt(s, 1) = c THEN "" ELSE CharAt(s, 1))
             \o RemoveChar(SubSeq(s, 2, Len(s)), c)

IsSpace(c) == c = " "

\* str.strip(): leading and trailing whitespace removed
RECURSIVE LStrip(_)
LStrip(s) ==
    IF Len(s) > 0 /\ IsSpace(CharAt(s, 1)) THEN LStrip(SubSeq(s, 2, Len(s))) ELSE s
RECURSIVE RStrip(_)
RStrip(s) ==
    IF Len(s) > 0 /\ IsSpace(CharAt(s, Len(s)))
    THEN RStrip(SubSeq(s, 1, Len(s) - 1)) ELSE s
Strip(s) == RStrip(LStrip(s))

\* str.rstrip("."): every trailing full stop removed
RECURSIVE RStripDot(_)
RStripDot(s) ==
    IF Len(s) > 0 /\ CharAt(s, Len(s)) = "."
    THEN RStripDot(SubSeq(s, 1, Len(s) - 1)) ELSE s

\* sep.join(parts)
RECURSIVE Join(_, _)
Join(parts, sep) ==
    IF Len(parts) = 0 THEN ""
    ELSE IF Len(parts) = 1 THEN parts[1]
    ELSE parts[1] \o sep \o Join(Tail(parts), sep)

\* seq[:], the whole of seq whatever n is
LastN_whole(seq, n) == seq

\* seq[-n:]
LastN(seq, n) ==
    IF Len(seq) <= n THEN seq ELSE SubSeq(seq, Len(seq) - n + 1, Len(seq))

\* [x.lower() for x in seq]
LowerAll(seq) == [ i \in 1..Len(seq) |-> Lower(seq[i]) ]

SeqRange(seq) == { seq[i] : i \in 1..Len(seq) }

(***************************************************************************)
(* Enumerations (verifier.py 19-33, entity.py 17-28)                       *)
(***************************************************************************)
SUPPORTED == "supported"
CONTRADICTED == "contradicted"
UNVERIFIABLE == "unverifiable"
PLAUSIBLE == "plausible"
VerificationStatus == { SUPPORTED, CONTRADICTED, UNVERIFIABLE, PLAUSIBLE }

ATTRIBUTION == "attribution"
LOCATION == "location"
\* TEMPORAL is a reserved word of TLA+
TEMPORAL_CLAIM == "temporal"
PROPERTY == "property"
RELATION == "relation"
ClaimType == { ATTRIBUTION, LOCATION, TEMPORAL_CLAIM, PROPERTY, RELATION }

SPATIAL == "SPATIAL"
TAXONOMIC == "TAXONOMIC"
DOMAIN_DIM == "DOMAIN"
GroundingDimension == { SPATIAL, "TEMPORAL", TAXONOMIC, "SCALE", DOMAIN_DIM }

(***************************************************************************)
(* Claim parsing: RELATION_PATTERNS and ClaimVerifier._parse_claim.        *)
(*                                                                         *)
(* Every pattern is `(.+?)` for the subject, then a list of items each     *)
(* preceded by `\s+`, then an ending: `\s+(.+)` ("rest") or `\s+(\d{4})`   *)
(* ("year").  An item is an alternation of literals, captured or not.      *)
(* Matching is re.match with re.IGNORECASE: anchored at the start, not at  *)
(* the end; the lazy subject takes the shortest prefix for which the rest  *)
(* matches; alternatives are tried in order.                               *)
(***************************************************************************)
Lit(w) == [ alts |-> << w >>, cap |-> FALSE ]
Grp(ws) == [ alts |-> ws, cap |-> TRUE ]
NoCap(ws) == [ alts |-> ws, cap |-> FALSE ]

RELATION_PATTERNS == <<
    [ type |-> ATTRIBUTION, ending |-> "rest",
      items |-> << Grp(<< "created", "wrote", "invented", "developed",
                          "discovered", "founded", "built" >>) >> ],
    [ type |-> ATTRIBUTION, ending |-> "rest",
      items |-> << Lit("is"), Lit("the"),
                   Grp(<< "creator", "inventor", "author", "founder" >>),
                   Lit("of") >> ],
    [ type |-> LOCATION, ending |-> "rest",
      items |-> << Lit("is"), Grp(<< "in", "located in", "situated in" >>) >> ],
    [ type |-> LOCATION, ending |-> "rest",
      items |-> << Lit("is"), Lit("the"), Lit("capital"), Lit("of") >> ],
    [ type |-> TEMPORAL_CLAIM, ending |-> "year",
      items |-> << Lit("was"), Lit("born"), Lit("in") >> ],
    [ type |-> TEMPORAL_CLAIM, ending |-> "year",
      items |-> << Grp(<< "happened", "occurred" >>), Lit("in") >> ],
    [ type |-> PROPERTY, ending |-> "rest",
      items |-> << Lit("is"), NoCap(<< "a", "an" >>) >> ],
    [ type |-> PROPERTY, ending |-> "rest",
      items |-> << Lit("was"), NoCap(<< "a", "an" >>) >> ]
>>

\* the first position at or after p that holds no whitespace
RECURSIVE SkipSpaces(_, _)
SkipSpaces(s, p) ==
    IF p <= Len(s) /\ IsSpace(CharAt(s, p)) THEN SkipSpaces(s, p + 1) ELSE p

NoMatch == [ ok |-> FALSE, groups |-> << >> ]

\* the ending of a pattern, matched at position p
MatchEnding(s, p, ending) ==
    IF p > Len(s) \/ ~IsSpace(CharAt(s, p)) THEN NoMatch
    ELSE IF ending = "rest"
    THEN IF p + 1 > Len(s) THEN NoMatch
         ELSE LET q == SkipSpaces(s, p)
                  \* `\s+` gives back one blank when nothing else is left for `(.+)`
                  from == IF q > Len(s) THEN Len(s) ELSE q
              IN  [ ok |-> TRUE, groups |-> << SubSeq(s, from, Len(s)) >> ]
    ELSE LET q == SkipSpaces(s, p)
         IN  IF q + 3 <= Len(s) /\ \A k \in q..(q + 3) : CharAt(s, k) \in DigitChars
             THEN [ ok |-> TRUE, groups |-> << SubSeq(s, q, q + 3) >> ]
             ELSE NoMatch

\* items, then the ending, matched at position p (the character after the subject)
RECURSIVE MatchItems(_, _, _, _)
RECURSIVE TryAlts(_, _, _, _, _)
MatchItems(s, p, items, ending) ==
    IF Len(items) = 0 THEN MatchEnding(s, p, ending)
    ELSE IF p > Len(s) \/ ~IsSpace(CharAt(s, p)) THEN NoMatch
    ELSE TryAlts(s, SkipSpaces(s, p), items, ending, 1)
TryAlts(s, q, items, ending, i) ==
    IF i > Len(items[1].alts) THEN NoMatch
    ELSE LET w == items[1].alts[i]
             e == q + Len(w) - 1
             text == SubSeq(s, q, e)
             rest == MatchItems(s, e + 1, Tail(items), ending)
         IN  IF e <= Len(s) /\ Lower(text) = w /\ rest.ok
             THEN [ ok |-> TRUE,
                    groups |-> (IF items[1].cap THEN << text >> ELSE << >>)
                                   \o rest.groups ]
             ELSE TryAlts(s, q, items, ending, i + 1)

\* re.match(pattern, claim, re.IGNORECASE).groups(), or NoMatch
MatchPattern(s, pat) ==
    LET ends == { i \in 1..Len(s) : MatchItems(s, i + 1, pat.items, pat.ending).ok }
    IN  IF ends = {} THEN NoMatch
        ELSE LET i == CHOOSE j \in ends : \A k \in ends : j <= k
                 m == MatchItems(s, i + 1, pat.items, pat.ending)
             IN  [ ok |-> TRUE, groups |-> << SubSeq(s, 1, i) >> \o m.groups ]

\* ClaimVerifier._parse_claim: None, or Some([type, subject, relation, object])
RECURSIVE ParseFrom(_, _)
ParseFrom(c, k) ==
    IF k > Len(RELATION_PATTERNS) THEN None
    ELSE LET m == MatchPattern(c, RELATION_PATTERNS[k])
             g == m.groups
         IN  IF m.ok /\ Len(g) >= 2
             THEN Some([ type |-> RELATION_PATTERNS[k].type,
                         subject |-> Strip(g[1]),
                         relation |-> IF Len(g) > 2 THEN Strip(g[2]) ELSE "",
                         object |-> Strip(g[Len(g)]) ])
             ELSE ParseFrom(c, k + 1)
_parse_claim(claim) == ParseFrom(RStripDot(Strip(claim)), 1)

(***************************************************************************)
(* The entity store (store.py).  A store is a record of tables, each a     *)
(* sequence of rows in the order the database yields them:                 *)
(*   entities         [id, label, description, pagerank]                   *)
(*   positions        [entity_id, dimension, path_nodes]                   *)
(*   properties       [entity_id, key, value]                              *)
(*   entity_links     [source_id, target_id, relation, weight]             *)
(*   anchor_dictionary[anchor_id, label, category]                         *)
(*   entity_anchors   [entity_id, anchor_id, weight]                       *)
(* Weights are integers in tenths; pagerank is COALESCE(pagerank, 0).      *)
(***************************************************************************)

\* seq[:n]
Take(seq, n) == IF Len(seq) <= n THEN seq ELSE SubSeq(seq, 1, n)

\* EntityStore.get: the entity exists (the profile is read off the tables
\* by the operators below)
get(st, id) ==
    IF \E i \in 1..Len(st.entities) : st.entities[i].id = id THEN Some(id) ELSE None

\* EntityStore._row_to_entity
entity(st, id) ==
    st.entities[CHOOSE i \in 1..Len(st.entities) : st.entities[i].id = id]

\* EntityStore._get_positions: EntityProfile.positions
positions(st, id) ==
    LET Mine(r) == r.entity_id = id IN SelectSeq(st.positions, Mine)

\* EntityStore._get_properties: EntityProfile.properties, a dict in row order
properties(st, id) ==
    LET Mine(r) == r.entity_id = id IN SelectSeq(st.properties, Mine)

\* SQL LIKE on ASCII text: % is any run of characters, _ any one character,
\* letters compare case-insensitively
RECURSIVE Like(_, _)
Like(s, pat) ==
    IF Len(pat) = 0 THEN Len(s) = 0
    ELSE LET c == CharAt(pat, 1)
             restPat == SubSeq(pat, 2, Len(pat))
         IN  IF c = "%"
             THEN \E k \in 0..Len(s) : Like(SubSeq(s, k + 1, Len(s)), restPat)
             ELSE /\ Len(s) > 0
                  /\ (c = "_" \/ LowerChar(c) = LowerChar(CharAt(s, 1)))
                  /\ Like(SubSeq(s, 2, Len(s)), restPat)

\* ORDER BY COALESCE(pagerank, 0) DESC: the ids that can come first in the
\* result (rows of equal pagerank come in an order the database chooses)
TopRanked(st, ids) ==
    { a \in ids : \A b \in ids : entity(st, a).pagerank >= entity(st, b).pagerank }

\* EntityStore.search: the ids whose label matches LIKE '%label%'
search(st, label) ==
    { st.entities[i].id : i \in { j \in 1..Len(st.entities) :
          Like(Lower(st.entities[j].label), Lower("%" \o label \o "%")) } }

\* EntityStore.search_exact: the ids whose label equals label, case-insensitively
search_exact(st, label) ==
    { st.entities[i].id : i \in { j \in 1..Len(st.entities) :
          Lower(st.entities[j].label) = Lower(label) } }

\* EntityStore.get_related(entity_id, direction="outgoing", limit):
\* (target id, relation, weight) rows
get_related(st, id, limit) ==
    LET Mine(r) == r.source_id = id
        Known(r) == IsSome(get(st, r.target_id))
        rows == SelectSeq(Take(SelectSeq(st.entity_links, Mine), limit), Known)
    IN  Take([ i \in 1..Len(rows) |->
                 [ id |-> rows[i].target_id, rel |-> rows[i].relation,
                   weight |-> rows[i].weight ] ], limit)

\* EntityStore.get_related(entity_id, direction="incoming", limit):
\* (source id, "inverse_" + relation, weight) rows
get_related_incoming(st, id, limit) ==
    LET Mine(r) == r.target_id = id
        Known(r) == IsSome(get(st, r.source_id))
        rows == SelectSeq(Take(SelectSeq(st.entity_links, Mine), limit), Known)
    IN  Take([ i \in 1..Len(rows) |->
                 [ id |-> rows[i].source_id, rel |-> "inverse_" \o rows[i].relation,
                   weight |-> rows[i].weight ] ], limit)

\* the orders of the rows of `rows` with non-increasing weight
RECURSIVE Perms(_)
Perms(S) ==
    IF S = {} THEN { << >> }
    ELSE UNION { { << e >> \o p : p \in Perms(S \ {e}) } : e \in S }
ByWeightDesc(rows) ==
    { [ k \in 1..Len(rows) |-> rows[p[k]] ] : p \in
        { q \in Perms(1..Len(rows)) :
            \A k \in 1..(Len(rows) - 1) : rows[q[k]].weight >= rows[q[k + 1]].weight } }

\* EntityStore.get_entity_anchors: the (anchor_id, label, category, weight)
\* lists the query can return (ORDER BY weight DESC leaves ties open)
get_entity_anchors(st, id) ==
    LET Mine(r) == r.entity_id = id
        InDict(r) == \E i \in 1..Len(st.anchor_dictionary) :
                         st.anchor_dictionary[i].anchor_id = r.anchor_id
        mine == SelectSeq(SelectSeq(st.entity_anchors, Mine), InDict)
        Dict(a) == st.anchor_dictionary[
                     CHOOSE i \in 1..Len(st.anchor_dictionary) :
                         st.anchor_dictionary[i].anchor_id = a]
        joined == [ i \in 1..Len(mine) |->
                      [ anchor_id |-> mine[i].anchor_id,
                        label |-> Dict(mine[i].anchor_id).label,
                        category |-> Dict(mine[i].anchor_id).category,
                        weight |-> mine[i].weight ] ]
    IN  ByWeightDesc(joined)

(***************************************************************************)
(* The position model (entity.py, EntityProfile)                           *)
(***************************************************************************)
\* EntityProfile.get_position: the first position of the dimension, or None
get_position(st, id, dimension) ==
    LET Dim(r) == r.dimension = dimension
        hits == SelectSeq(positions(st, id), Dim)
    IN  IF Len(hits) = 0 THEN None ELSE Some(hits[1])

\* EntityProfile.navigate_from_zero
navigate_from_zero(st, id, dimension) ==
    LET position == get_position(st, id, dimension)
    IN  IF IsNone(position) THEN << >> ELSE The(position).path_nodes

\* is_descendant_of comparing the labels as they are written
is_descendant_of_cased(st, id, ancestor_label, dimension) ==
    LET position == get_position(st, id, dimension)
    IN  IF IsNone(position) THEN FALSE
        ELSE ancestor_label \in SeqRange(The(position).path_nodes)

\* is_descendant_of looking at the TAXONOMIC position whatever the dimension
is_descendant_of_taxonomic(st, id, ancestor_label, dimension) ==
    LET position == get_position(st, id, TAXONOMIC)
    IN  IF IsNone(position) THEN FALSE
        ELSE Lower(ancestor_label) \in SeqRange(LowerAll(The(position).path_nodes))

\* is_descendant_of comparing the label with the last node of the path only
is_descendant_of_leaf(st, id, ancestor_label, dimension) ==
    LET position == get_position(st, id, dimension)
        nodes == The(position).path_nodes
    IN  IF IsNone(position) \/ Len(nodes) = 0 THEN FALSE
        ELSE Lower(ancestor_label) = Lower(nodes[Len(nodes)])

\* EntityProfile.is_descendant_of
is_descendant_of(st, id, ancestor_label, dimension) ==
    LET position == get_position(st, id, dimension)
    IN  IF IsNone(position) THEN FALSE
        ELSE Lower(ancestor_label) \in SeqRange(LowerAll(The(position).path_nodes))

\* min(len(a), len(b))
Min(a, b) == IF a <= b THEN a ELSE b

\* the first index at which zip(a, b) yields two nodes that differ when
\* written as they are, or 0
FirstMismatch_cased(a, b) ==
    LET differ == { i \in 1..Min(Len(a), Len(b)) : a[i] # b[i] }
    IN  IF differ = {} THEN 0 ELSE CHOOSE i \in differ : \A j \in differ : i <= j

\* the loops over zip(self_pos.path_nodes, other_pos.path_nodes) (entity.py
\* lines 271-273 and 310-314): the first index at which a.lower() !=
\* b.lower(), or 0 when zip ends without one
FirstMismatch(a, b) ==
    LET differ == { i \in 1..Min(Len(a), Len(b)) : Lower(a[i]) # Lower(b[i]) }
    IN  IF differ = {} THEN 0 ELSE CHOOSE i \in differ : \A j \in differ : i <= j

\* shared_ancestor comparing the nodes as they are written
shared_ancestor_cased(st, id, other, dimension) ==
    LET self_pos == get_position(st, id, dimension)
        other_pos == get_position(st, other, dimension)
        mine == The(self_pos).path_nodes
        theirs == The(other_pos).path_nodes
        i == FirstMismatch_cased(mine, theirs)
        min_len == Min(Len(mine), Len(theirs))
    IN  IF IsNone(self_pos) \/ IsNone(other_pos) THEN None
        ELSE IF i # 0 THEN ( IF i > 1 THEN Some(mine[i - 1]) ELSE None )
        ELSE IF min_len > 0 THEN Some(mine[min_len]) ELSE None

\* EntityProfile.shared_ancestor (entity.py lines 247-279): the node of
\* self's path before the first mismatch, or self's node at the end of the
\* shorter path
shared_ancestor(st, id, other, dimension) ==
    LET self_pos == get_position(st, id, dimension)
        other_pos == get_position(st, other, dimension)
        mine == The(self_pos).path_nodes
        theirs == The(other_pos).path_nodes
        i == FirstMismatch(mine, theirs)
        min_len == Min(Len(mine), Len(theirs))
    IN  IF IsNone(self_pos) \/ IsNone(other_pos) THEN None
        ELSE IF i # 0 THEN ( IF i > 1 THEN Some(mine[i - 1]) ELSE None )
        ELSE IF min_len > 0 THEN Some(mine[min_len]) ELSE None

\* hierarchical_distance counting the steps of self only
hierarchical_distance_one_way(st, id, other, dimension) ==
    LET self_pos == get_position(st, id, dimension)
        other_pos == get_position(st, other, dimension)
        mine == The(self_pos).path_nodes
        theirs == The(other_pos).path_nodes
        i == FirstMismatch(mine, theirs)
        common_depth == IF i = 0 THEN Min(Len(mine), Len(theirs)) ELSE i - 1
    IN  IF IsNone(self_pos) \/ IsNone(other_pos) THEN -1
        ELSE IF common_depth = 0 THEN -1
        ELSE Len(mine) - common_depth

\* hierarchical_distance comparing the nodes as they are written
hierarchical_distance_cased(st, id, other, dimension) ==
    LET self_pos == get_position(st, id, dimension)
        other_pos == get_position(st, other, dimension)
        mine == The(self_pos).path_nodes
        theirs == The(other_pos).path_nodes
        i == FirstMismatch_cased(mine, theirs)
        common_depth == IF i = 0 THEN Min(Len(mine), Len(theirs)) ELSE i - 1
    IN  IF IsNone(self_pos) \/ IsNone(other_pos) THEN -1
        ELSE IF common_depth = 0 THEN -1
        ELSE (Len(mine) - common_depth) + (Len(theirs) - common_depth)

\* EntityProfile.hierarchical_distance (entity.py lines 281-320)
hierarchical_distance(st, id, other, dimension) ==
    LET self_pos == get_position(st, id, dimension)
        other_pos == get_position(st, other, dimension)
        mine == The(self_pos).path_nodes
        theirs == The(other_pos).path_nodes
        i == FirstMismatch(mine, theirs)
        common_depth == IF i = 0 THEN Min(Len(mine), Len(theirs)) ELSE i - 1
    IN  IF IsNone(self_pos) \/ IsNone(other_pos) THEN -1
        ELSE IF common_depth = 0 THEN -1
        ELSE (Len(mine) - common_depth) + (Len(theirs) - common_depth)

(***************************************************************************)
(* The claim verifier (verifier.py)                                        *)
(***************************************************************************)
\* a confidence given in hundredths, in units of 10^-6
Conf(hundredths) == hundredths * 10000

VERIFICATION_CONFIDENCE_THRESHOLD == Conf(60)

\* VerificationResult without the correction it is given
VerificationResult_uncorrected(claim, status, claim_type, confidence, subject_entity, object_entity, supporting_evidence, contradicting_evidence, correction) ==
    [ claim |-> claim, status |-> status, claim_type |-> claim_type,
      confidence |-> confidence, subject_entity |-> subject_entity,
      object_entity |-> object_entity,
      supporting_evidence |-> supporting_evidence,
      contradicting_evidence |-> contradicting_evidence,
      correction |-> None, abstention_reason |-> None ]

\* the dataclass VerificationResult; the entities are held by id
VerificationResult(claim, status, claim_type, confidence, subject_entity, object_entity, supporting_evidence, contradicting_evidence, correction) ==
    [ claim |-> claim, status |-> status, claim_type |-> claim_type,
      confidence |-> confidence, subject_entity |-> subject_entity,
      object_entity |-> object_entity,
      supporting_evidence |-> supporting_evidence,
      contradicting_evidence |-> contradicting_evidence,
      correction |-> correction, abstention_reason |-> None ]

\* is_confident with > in place of >=
is_confident_strict(r) == r.confidence > VERIFICATION_CONFIDENCE_THRESHOLD

\* VerificationResult.is_confident
is_confident(r) == r.confidence >= VERIFICATION_CONFIDENCE_THRESHOLD

\* effective_status with the gate at 0.9
effective_status_wary(r) ==
    IF r.status \in { SUPPORTED, CONTRADICTED } /\ r.confidence < Conf(90)
    THEN UNVERIFIABLE
    ELSE r.status

\* VerificationResult.effective_status
effective_status(r) ==
    IF r.status \in { SUPPORTED, CONTRADICTED } /\ ~is_confident(r)
    THEN UNVERIFIABLE
    ELSE r.status

CLAIM_TO_RELATIONS == [ verb \in { "created", "wrote", "invented", "discovered",
                                   "founded", "built", "capital", "located" } |->
    CASE verb = "created"    -> << "creator_of", "created", "invented", "RelatedTo" >>
      [] verb = "wrote"      -> << "author_of", "wrote", "RelatedTo" >>
      [] verb = "invented"   -> << "inventor_of", "invented", "created", "RelatedTo" >>
      [] verb = "discovered" -> << "discoverer_of", "discovered", "RelatedTo" >>
      [] verb = "founded"    -> << "founder_of", "founded", "RelatedTo" >>
      [] verb = "built"      -> << "builder_of", "built", "constructed", "RelatedTo" >>
      [] verb = "capital"    -> << "capital_of", "AtLocation", "PartOf" >>
      [] verb = "located"    -> << "located_in", "part_of", "AtLocation", "PartOf" >> ]

LOCATION_RELATIONS ==
    { "atlocation", "partof", "locatedin", "isin", "part_of", "located_in", "in" }

normalize_relation(rel) ==
    RemoveChar(RemoveChar(RemoveChar(Lower(rel), "_"), "-"), " ")

\* CLAIM_TO_RELATIONS.get(relation.lower(), [relation.lower()])
relation_types(relation) ==
    IF Lower(relation) \in DOMAIN CLAIM_TO_RELATIONS
    THEN CLAIM_TO_RELATIONS[Lower(relation)]
    ELSE << Lower(relation) >>

normalized_types(relation) ==
    { normalize_relation(rt) : rt \in SeqRange(relation_types(relation)) }

\* matches_relation without the test for a table entry contained in the name
matches_outgoing_table(rel, relation) ==
    \/ normalize_relation(rel) \in normalized_types(relation)
    \/ normalize_relation(rel) = "relatedto"

\* matches_relation of the loop over the subject's outgoing relations
matches_outgoing(rel, relation) ==
    \/ normalize_relation(rel) \in normalized_types(relation)
    \/ \E rt \in SeqRange(relation_types(relation)) : Contains(Lower(rel), rt)
    \/ normalize_relation(rel) = "relatedto"

\* matches_relation of the loop over the object's incoming relations
matches_incoming(rel, relation) ==
    \/ normalize_relation(rel) \in normalized_types(relation)
    \/ \E rt \in SeqRange(relation_types(relation)) : Contains(Lower(rel), rt)

\* the result for a claim that does not parse, given a claim type
Unparsed_typed(claim) ==
    VerificationResult(claim, UNVERIFIABLE, Some(RELATION), Conf(0),
                       None, None, << >>, << >>, None)

\* verify, lines 174-178: the result for a claim that does not parse
Unparsed(claim) ==
    VerificationResult(claim, UNVERIFIABLE, None, Conf(0),
                       None, None, << >>, << >>, None)

\* the result for an ungrounded subject with the confidence of a parse failure
Ungrounded_zero(claim, claim_type) ==
    VerificationResult(claim, UNVERIFIABLE, Some(claim_type), Conf(0),
                       None, None, << >>, << >>, None)

\* the result for an ungrounded subject without the claim type
Ungrounded_untyped(claim, claim_type) ==
    VerificationResult(claim, UNVERIFIABLE, None, Conf(30),
                       None, None, << >>, << >>, None)

\* verify, lines 187-192: the result for a claim whose subject does not ground
Ungrounded(claim, claim_type) ==
    VerificationResult(claim, UNVERIFIABLE, Some(claim_type), Conf(30),
                       None, None, << >>, << >>, None)

\* the store calls of one search of _ground_entity's loop
Call(method, arg) == << method, arg >>

\* the loop of _ground_entity from its k-th search on: search_exact, then
\* search, for each variant in turn; made holds the store calls so far
RECURSIVE GroundFrom(_, _, _, _)
GroundFrom(st, variations, k, made) ==
    IF k > 2 * Len(variations) THEN { [ value |-> None, calls |-> made ] }
    ELSE LET variant == variations[(k + 1) \div 2]
             results == IF k % 2 = 1 THEN search_exact(st, variant)
                        ELSE search(st, variant)
             now == made \cup { Call(IF k % 2 = 1 THEN "search_exact" ELSE "search",
                                     variant) }
         IN  IF results # {}
             THEN { [ value |-> Some(id), calls |-> now ] :
                      id \in TopRanked(st, results) }
             ELSE GroundFrom(st, variations, k + 1, now)

\* ClaimVerifier._ground_entity: the values it can return (Some(id) or
\* None), each with the store calls made on the way
_ground_entity(st, mention) ==
    LET stripped == Strip(mention)
        articles == << "the ", "a ", "an ", "The ", "A ", "An " >>
        found == { i \in 1..Len(articles) : StartsWith(stripped, articles[i]) }
        normalized ==
            IF found = {} THEN stripped
            ELSE LET a == articles[CHOOSE i \in found : \A j \in found : i <= j]
                 IN  SubSeq(stripped, Len(a) + 1, Len(stripped))
        variations ==
            IF mention # normalized
            THEN << normalized, Title(normalized), mention >>
            ELSE << mention, normalized, Title(normalized) >>
    IN  GroundFrom(st, variations, 1, {})

\* the least of the indices hits, 0 if there is none: where a loop over a
\* list first meets an element that satisfies its test
FirstIndex(hits) ==
    IF hits = {} THEN 0 ELSE CHOOSE i \in hits : \A j \in hits : i <= j

label_of(st, id) == entity(st, id).label

\* ClaimVerifier._verify_attribution
_verify_attribution(st, claim, subject, relation, object_str, object_entity) ==
    LET related == get_related(st, subject, 100)
        Supports(row) ==
            /\ matches_outgoing(row.rel, relation)
            /\ \/ IsSome(object_entity) /\ row.id = The(object_entity)
               \/ Contains(Lower(label_of(st, row.id)), Lower(object_str))
        hits == SelectSeq(related, Supports)
        supporting == [ i \in 1..Len(hits) |->
                          hits[i].rel \o ": " \o label_of(st, hits[i].id) ]
        object_related ==
            IF IsSome(object_entity)
            THEN get_related_incoming(st, The(object_entity), 50) ELSE << >>
        Contradicts(row) == matches_incoming(row.rel, relation) /\ row.id # subject
        other == FirstIndex({ ix \in 1..Len(object_related) : Contradicts(object_related[ix]) })
        calls == { Call("get_related", subject) } \cup
                 (IF supporting = << >> /\ IsSome(object_entity)
                  THEN { Call("get_related", The(object_entity)) } ELSE {})
    IN  [ calls |-> calls,
          result |->
            IF supporting # << >>
            THEN VerificationResult(claim, SUPPORTED, Some(ATTRIBUTION), Conf(90),
                     Some(subject), object_entity, supporting, << >>, None)
            ELSE IF other # 0
            THEN LET row == object_related[other]
                 IN  VerificationResult(claim, CONTRADICTED, Some(ATTRIBUTION),
                         Conf(85), Some(subject), object_entity, << >>,
                         << row.rel \o ": " \o label_of(st, row.id) >>,
                         Some(object_str \o " was " \o relation \o " by "
                                  \o label_of(st, row.id)))
            ELSE VerificationResult(claim, UNVERIFIABLE, Some(ATTRIBUTION),
                     Conf(40), Some(subject), object_entity, << >>, << >>, None) ]

\* ClaimVerifier._verify_location; anchors is the list get_entity_anchors
\* returns if it is called
_verify_location(st, claim, subject, object_str, object_entity, anchors) ==
    LET spatial_pos == get_position(st, subject, SPATIAL)
        related == get_related(st, subject, 50)
        Located(row) ==
            /\ normalize_relation(row.rel) \in LOCATION_RELATIONS
            /\ \/ Contains(Lower(label_of(st, row.id)), Lower(object_str))
               \/ IsSome(object_entity) /\ row.id = The(object_entity)
        rel == FirstIndex({ ix \in 1..Len(related) : Located(related[ix]) })
        Geographic(a) ==
            a.category = "GEOGRAPHY" /\ Contains(Lower(a.label), Lower(object_str))
        anchor == FirstIndex({ ix \in 1..Len(anchors) : Geographic(anchors[ix]) })
    IN  IF is_descendant_of(st, subject, object_str, SPATIAL)
        THEN [ calls |-> {},
               result |-> VerificationResult(claim, SUPPORTED, Some(LOCATION),
                   Conf(95), Some(subject), object_entity,
                   << "SPATIAL hierarchy: "
                        \o Join(navigate_from_zero(st, subject, SPATIAL), " > ") >>,
                   << >>, None) ]
        ELSE IF IsSome(spatial_pos)
        THEN [ calls |-> {},
               result |-> VerificationResult(claim, CONTRADICTED, Some(LOCATION),
                   Conf(80), Some(subject), object_entity, << >>,
                   << "SPATIAL hierarchy: "
                        \o Join(The(spatial_pos).path_nodes, " > ") >>,
                   Some(label_of(st, subject) \o " is located in "
                        \o Join(LastN(The(spatial_pos).path_nodes, 3), " > "))) ]
        ELSE IF rel # 0
        THEN LET row == related[rel]
             IN  [ calls |-> { Call("get_related", subject) },
                   result |->
                     IF Contains(Lower(label_of(st, row.id)), Lower(object_str))
                     THEN VerificationResult(claim, SUPPORTED, Some(LOCATION),
                              Conf(75), Some(subject), object_entity,
                              << row.rel \o ": " \o label_of(st, row.id) >>,
                              << >>, None)
                     ELSE VerificationResult(claim, SUPPORTED, Some(LOCATION),
                              Conf(85), Some(subject), object_entity,
                              << row.rel \o ": " \o label_of(st, row.id)
                                   \o " (exact match)" >>,
                              << >>, None) ]
        ELSE [ calls |-> { Call("get_related", subject),
                           Call("get_entity_anchors", subject) },
               result |->
                 IF anchor # 0
                 THEN VerificationResult(claim, PLAUSIBLE, Some(LOCATION), Conf(60),
                          Some(subject), object_entity,
                          << "Geographic anchor: " \o anchors[anchor].label >>,
                          << >>, None)
                 ELSE VerificationResult(claim, UNVERIFIABLE, Some(LOCATION),
                          Conf(30), Some(subject), object_entity, << >>, << >>,
                          None) ]

\* ClaimVerifier._verify_property; anchors is the list get_entity_anchors
\* returns if it is called
_verify_property(st, claim, subject, property_str, anchors) ==
    LET description == entity(st, subject).description
        props == properties(st, subject)
        InValue(p) == Contains(Lower(p.value), Lower(property_str))
        prop == FirstIndex({ ix \in 1..Len(props) : InValue(props[ix]) })
        KnownFor(a) ==
            a.category = "KNOWN_FOR" /\ Contains(Lower(a.label), Lower(property_str))
        anchor == FirstIndex({ ix \in 1..Len(anchors) : KnownFor(anchors[ix]) })
        Supported(confidence, evidence) ==
            VerificationResult(claim, SUPPORTED, Some(PROPERTY), confidence,
                Some(subject), None, << evidence >>, << >>, None)
    IN  IF is_descendant_of(st, subject, property_str, TAXONOMIC)
        THEN [ calls |-> {},
               result |-> Supported(Conf(90), "TAXONOMIC hierarchy: "
                   \o Join(navigate_from_zero(st, subject, TAXONOMIC), " > ")) ]
        ELSE IF is_descendant_of(st, subject, property_str, DOMAIN_DIM)
        THEN [ calls |-> {},
               result |-> Supported(Conf(85), "DOMAIN hierarchy: "
                   \o Join(navigate_from_zero(st, subject, DOMAIN_DIM), " > ")) ]
        ELSE IF /\ IsSome(description) /\ The(description) # ""
                /\ Contains(Lower(The(description)), Lower(property_str))
        THEN [ calls |-> {},
               result |-> Supported(Conf(80), "Description: " \o The(description)) ]
        ELSE IF prop # 0
        THEN [ calls |-> {},
               result |-> Supported(Conf(75),
                   props[prop].key \o ": " \o props[prop].value) ]
        ELSE [ calls |-> { Call("get_entity_anchors", subject) },
               result |->
                 IF anchor # 0
                 THEN VerificationResult(claim, PLAUSIBLE, Some(PROPERTY), Conf(65),
                          Some(subject), None,
                          << "Known for: " \o anchors[anchor].label >>, << >>, None)
                 ELSE VerificationResult(claim, UNVERIFIABLE, Some(PROPERTY),
                          Conf(30), Some(subject), None, << >>, << >>, None) ]

(***************************************************************************)
(* Spreading activation (spreading.py).  Activations are integers in units *)
(* of 10^-6; decay and weights are integers in tenths, so a product of an  *)
(* activation and three factors is exact for two hops from 1.0.            *)
(***************************************************************************)
SemanticBank == { "SPATIAL", "TEMPORAL", "MENTAL", "SUBSTANTIVES" }

\* ANCHOR_TO_BANK.get(category, SemanticBank.MENTAL)
ANCHOR_TO_BANK(category) ==
    CASE category = "SCOPE" -> "MENTAL"
      [] category = "HISTORY" -> "TEMPORAL"
      [] category = "KNOWN_FOR" -> "MENTAL"
      [] category = "GEOGRAPHY" -> "SPATIAL"
      [] category = "TYPE" -> "SUBSTANTIVES"
      [] OTHER -> "MENTAL"

\* SpreadingConfig() with its defaults
SpreadingConfig ==
    [ decay |-> 7, threshold |-> 150000, max_depth |-> 2, max_results |-> 50,
      use_anchors |-> TRUE, anchor_decay |-> 4, anchor_limit |-> 5,
      max_anchors |-> 10,
      relation_weights |->
        [ r \in { "same_as", "part_of", "located_in", "instance_of", "subclass_of",
                  "capital_of", "created", "developed", "discovered", "invented",
                  "wrote", "born_in", "worked_at", "awarded", "related_to" } |->
            CASE r = "same_as" -> 10
              [] r = "part_of" -> 9
              [] r \in { "subclass_of", "born_in", "worked_at", "awarded" } -> 7
              [] r = "related_to" -> 5
              [] OTHER -> 8 ] ]

\* get_weight with the default 0.0 for a relation the table does not list
get_weight_listed(config, relation) ==
    IF relation \in DOMAIN config.relation_weights
    THEN config.relation_weights[relation]
    ELSE 0

\* SpreadingConfig.get_weight
get_weight(config, relation) ==
    IF relation \in DOMAIN config.relation_weights
    THEN config.relation_weights[relation]
    ELSE 5

\* a * t for an activation a and a factor t in tenths
Times(a, t) == (a * t) \div 10

\* EntityStore.get_entities_with_anchor: the (entity_id, weight) lists the
\* query can return (ORDER BY weight DESC LIMIT limit leaves ties open)
get_entities_with_anchor(st, anchor_id, limit) ==
    LET Mine(r) == r.anchor_id = anchor_id
    IN  { Take(o, limit) : o \in ByWeightDesc(SelectSeq(st.entity_anchors, Mine)) }

\* the order of Python's str: by code point, a proper prefix first
ASCII == " -.0123456789:ABCDEFGHIJKLMNOPQRSTUVWXYZ_abcdefghijklmnopqrstuvwxyz"
Ord(c) == CHOOSE i \in 1..Len(ASCII) : CharAt(ASCII, i) = c
RECURSIVE StrLess(_, _)
StrLess(a, b) ==
    IF Len(b) = 0 THEN FALSE
    ELSE IF Len(a) = 0 THEN TRUE
    ELSE IF CharAt(a, 1) = CharAt(b, 1)
    THEN StrLess(SubSeq(a, 2, Len(a)), SubSeq(b, 2, Len(b)))
    ELSE Ord(CharAt(a, 1)) < Ord(CharAt(b, 1))

\* the order of the heap's tuples (-activation, depth, entity_id, ...): two
\* entries of one entity never carry the same activation, so the order is
\* decided by the third component at the latest
HeapLess(e, f) ==
    \/ e.activation > f.activation
    \/ /\ e.activation = f.activation
       /\ \/ e.depth < f.depth
          \/ e.depth = f.depth /\ StrLess(e.id, f.id)

\* a pop of the entry with the lowest activation instead of the highest
HeapTop_weakest(queue) == CHOOSE e \in queue : \A f \in queue \ {e} : HeapLess(f, e)

\* heappop: the least entry of the heap
HeapTop(queue) == CHOOSE e \in queue : \A f \in queue \ {e} : HeapLess(e, f)

\* the state of one spread_multiple call: the dict activations (a sequence
\* in insertion order), the set visited and the heap queue
Recorded(s, id) ==
    LET hits == { i \in 1..Len(s.activations) : s.activations[i].id = id }
    IN  IF hits = {} THEN 0 ELSE CHOOSE i \in hits : TRUE

\* Offer without the tests of lines 225 and 274, so that an entry is queued
\* for a visited target too
Offer_requeued(s, config, e, target, a, relation, banks) ==
    LET cur == Recorded(s, target)
        state == [ id |-> target, activation |-> a,
                   path |-> Append(e.path, target),
                   relations |-> Append(e.relations, relation),
                   banks |-> banks ]
    IN  IF a < config.threshold THEN s
        ELSE IF cur # 0 /\ ~(a > s.activations[cur].activation) THEN s
        ELSE [ s EXCEPT
                 !.activations = IF cur = 0 THEN Append(@, state)
                                 ELSE [ @ EXCEPT ![cur] = state ],
                 !.queue = @ \cup { [ activation |-> a, depth |-> e.depth + 1,
                                      id |-> target, path |-> state.path,
                                      relations |-> state.relations,
                                      banks |-> banks ] } ]

\* Offer leaving the record of a visited target as it is
Offer_frozen(s, config, e, target, a, relation, banks) ==
    LET cur == Recorded(s, target)
        state == [ id |-> target, activation |-> a,
                   path |-> Append(e.path, target),
                   relations |-> Append(e.relations, relation),
                   banks |-> banks ]
    IN  IF a < config.threshold THEN s
        ELSE IF target \in s.visited THEN s
        ELSE IF cur # 0 /\ ~(a > s.activations[cur].activation) THEN s
        ELSE [ s EXCEPT
                 !.activations = IF cur = 0 THEN Append(@, state)
                                 ELSE [ @ EXCEPT ![cur] = state ],
                 !.queue = @ \cup { [ activation |-> a, depth |-> e.depth + 1,
                                      id |-> target, path |-> state.path,
                                      relations |-> state.relations,
                                      banks |-> banks ] } ]

\* Offer without the tests of lines 213 and 259, so that a hop below the
\* threshold is recorded
Offer_unfiltered(s, config, e, target, a, relation, banks) ==
    LET cur == Recorded(s, target)
        state == [ id |-> target, activation |-> a,
                   path |-> Append(e.path, target),
                   relations |-> Append(e.relations, relation),
                   banks |-> banks ]
    IN  IF cur # 0 /\ ~(a > s.activations[cur].activation) THEN s
        ELSE [ s EXCEPT
                 !.activations = IF cur = 0 THEN Append(@, state)
                                 ELSE [ @ EXCEPT ![cur] = state ],
                 !.queue = IF target \in s.visited THEN @
                           ELSE @ \cup { [ activation |-> a, depth |-> e.depth + 1,
                                           id |-> target, path |-> state.path,
                                           relations |-> state.relations,
                                           banks |-> banks ] } ]

\* lines 213-229 and 259-278: a hop to target with activation a, reached
\* from the popped entry e; a hop that beats the recorded activation is
\* recorded, and queued unless target was visited
Offer(s, config, e, target, a, relation, banks) ==
    LET cur == Recorded(s, target)
        state == [ id |-> target, activation |-> a,
                   path |-> Append(e.path, target),
                   relations |-> Append(e.relations, relation),
                   banks |-> banks ]
    IN  IF a < config.threshold THEN s
        ELSE IF cur # 0 /\ ~(a > s.activations[cur].activation) THEN s
        ELSE [ s EXCEPT
                 !.activations = IF cur = 0 THEN Append(@, state)
                                 ELSE [ @ EXCEPT ![cur] = state ],
                 !.queue = IF target \in s.visited THEN @
                           ELSE @ \cup { [ activation |-> a, depth |-> e.depth + 1,
                                           id |-> target, path |-> state.path,
                                           relations |-> state.relations,
                                           banks |-> banks ] } ]

\* lines 206-229: layer 1, the hops along the rows of get_related
RECURSIVE Layer1(_, _, _, _)
Layer1(s, config, e, related) ==
    IF Len(related) = 0 THEN s
    ELSE LET row == related[1]
             new_activation ==
                 Times(Times(Times(e.activation, config.decay),
                             get_weight(config, row.rel)), row.weight)
         IN  Layer1(Offer(s, config, e, row.id, new_activation, row.rel, e.banks),
                    config, e, Tail(related))

\* AnchorHops without line 269, so that no hop is added to a bank
RECURSIVE AnchorHops_untallied(_, _, _, _, _)
AnchorHops_untallied(s, config, e, anchor, members) ==
    IF Len(members) = 0 THEN s
    ELSE LET m == members[1]
             anchor_activation ==
                 Times(Times(Times(e.activation, config.anchor_decay),
                             anchor.weight), m.weight)
         IN  AnchorHops_untallied(
                 IF m.entity_id = e.id THEN s
                 ELSE Offer(s, config, e, m.entity_id, anchor_activation,
                            "anchor:" \o anchor.label, e.banks),
                 config, e, anchor, Tail(members))

\* lines 247-278: the hops to the entities that share one anchor
RECURSIVE AnchorHops(_, _, _, _, _)
AnchorHops(s, config, e, anchor, members) ==
    IF Len(members) = 0 THEN s
    ELSE LET m == members[1]
             bank == ANCHOR_TO_BANK(anchor.category)
             anchor_activation ==
                 Times(Times(Times(e.activation, config.anchor_decay),
                             anchor.weight), m.weight)
             new_banks == [ e.banks EXCEPT ![bank] = @ + anchor_activation ]
         IN  AnchorHops(
                 IF m.entity_id = e.id THEN s
                 ELSE Offer(s, config, e, m.entity_id, anchor_activation,
                            "anchor:" \o anchor.label, new_banks),
                 config, e, anchor, Tail(members))

\* lines 238-278: layer 2; plan lists the anchors processed, each with the
\* list of entities the store returned for it
RECURSIVE Layer2(_, _, _, _)
Layer2(s, config, e, plan) ==
    IF Len(plan) = 0 THEN s
    ELSE Layer2(AnchorHops(s, config, e, plan[1].anchor, plan[1].members),
                config, e, Tail(plan))

\* the lists the store can return while an entity's anchors are processed
RECURSIVE PlansOf(_, _, _)
PlansOf(st, config, anchors) ==
    IF Len(anchors) = 0 THEN { << >> }
    ELSE { << [ anchor |-> anchors[1], members |-> m ] >> \o rest :
             m \in get_entities_with_anchor(st, anchors[1].anchor_id,
                                            config.anchor_limit),
             rest \in PlansOf(st, config, Tail(anchors)) }
AnchorPlans(st, config, id) ==
    UNION { PlansOf(st, config, Take(anchors, config.max_anchors)) :
              anchors \in get_entity_anchors(st, id) }

\* SpreadStart with empty paths for the sources
SpreadStart_pathless(sources) ==
    LET banks == [ b \in SemanticBank |-> 0 ]
    IN  [ activations |->
            [ i \in 1..Len(sources) |->
                [ id |-> sources[i].id, activation |-> sources[i].activation,
                  path |-> << >>, relations |-> << >>, banks |-> banks ] ],
          visited |-> {},
          queue |-> { [ activation |-> sources[i].activation, depth |-> 0,
                        id |-> sources[i].id, path |-> << >>,
                        relations |-> << >>, banks |-> banks ] :
                      i \in 1..Len(sources) } ]

\* lines 180-184: the state after the sources are queued
SpreadStart(sources) ==
    LET banks == [ b \in SemanticBank |-> 0 ]
    IN  [ activations |->
            [ i \in 1..Len(sources) |->
                [ id |-> sources[i].id, activation |-> sources[i].activation,
                  path |-> << sources[i].id >>, relations |-> << >>,
                  banks |-> banks ] ],
          visited |-> {},
          queue |-> { [ activation |-> sources[i].activation, depth |-> 0,
                        id |-> sources[i].id, path |-> << sources[i].id >>,
                        relations |-> << >>, banks |-> banks ] :
                      i \in 1..Len(sources) } ]

\* line 187: the condition of the while loop
Spreading(s, config) ==
    s.queue # {} /\ Cardinality(s.visited) < config.max_results * 2

\* Expands without the test of line 195, so that no depth stops the spread
Expands_at_any_depth(s, config, e) ==
    /\ e.id \notin s.visited
    /\ ~(e.activation < config.threshold)

\* whether the popped entry e is expanded (lines 191-199)
Expands(s, config, e) ==
    /\ e.id \notin s.visited
    /\ ~(e.depth >= config.max_depth)
    /\ ~(e.activation < config.threshold)

\* SpreadStep without the test of line 234, so that layer 2 is always on
SpreadStep_anchored(st, s, config, use_anchors, plan) ==
    LET e == HeapTop(s.queue)
        popped == [ s EXCEPT !.queue = @ \ {e} ]
        marked == [ popped EXCEPT !.visited = @ \cup {e.id} ]
        linked == Layer1(marked, config, e, get_related(st, e.id, 20))
    IN  IF e.id \in s.visited THEN popped
        ELSE IF ~Expands(s, config, e) THEN marked
        ELSE Layer2(linked, config, e, plan)

\* lines 188-278: one iteration of the loop, with the anchor lists of plan
SpreadStep(st, s, config, use_anchors, plan) ==
    LET e == HeapTop(s.queue)
        popped == [ s EXCEPT !.queue = @ \ {e} ]
        marked == [ popped EXCEPT !.visited = @ \cup {e.id} ]
        linked == Layer1(marked, config, e, get_related(st, e.id, 20))
    IN  IF e.id \in s.visited THEN popped
        ELSE IF ~Expands(s, config, e) THEN marked
        ELSE IF use_anchors THEN Layer2(linked, config, e, plan)
        ELSE linked

\* the results left in the order of the dict, as without list.sort()
SortResults_unsorted(seq) == seq

\* list.sort() with ActivationResult.__lt__: stable, higher activation first
RECURSIVE SortResults(_)
SortResults(seq) ==
    IF Len(seq) <= 1 THEN seq
    ELSE LET sorted == SortResults(SubSeq(seq, 1, Len(seq) - 1))
             x == seq[Len(seq)]
             \* x goes behind every element that does not have a lower activation
             keep == { i \in 1..Len(sorted) : \A j \in i..Len(sorted) :
                         sorted[j].activation < x.activation }
             at == IF keep = {} THEN Len(sorted) + 1
                   ELSE CHOOSE i \in keep : \A j \in keep : i <= j
         IN  SubSeq(sorted, 1, at - 1) \o << x >> \o SubSeq(sorted, at, Len(sorted))

\* BuildResults without the test of line 283, so that sources are returned
BuildResults_with_sources(st, s, sources, config) ==
    LET Kept(a) == IsSome(get(st, a.id))
    IN  Take(SortResults(SelectSeq(s.activations, Kept)), config.max_results)

\* lines 280-298: the ActivationResults returned
BuildResults(st, s, sources, config) ==
    LET Kept(a) == /\ \A i \in 1..Len(sources) : sources[i].id # a.id
                   /\ IsSome(get(st, a.id))
    IN  Take(SortResults(SelectSeq(s.activations, Kept)), config.max_results)

\* _verify_generic reading only the strongest result of spread
_verify_generic_strongest(claim, claim_type, subject, object_entity, spread_results) ==
    IF IsNone(object_entity)
    THEN VerificationResult(claim, UNVERIFIABLE, Some(claim_type), Conf(20),
             Some(subject), None, << >>, << >>, None)
    ELSE IF Len(spread_results) > 0 /\ spread_results[1].id = The(object_entity)
    THEN VerificationResult(claim, PLAUSIBLE, Some(claim_type),
             spread_results[1].activation, Some(subject), object_entity,
             << "Activation path: " \o Join(spread_results[1].path, " -> ") >>,
             << >>, None)
    ELSE VerificationResult(claim, UNVERIFIABLE, Some(ATTRIBUTION), Conf(30),
             Some(subject), object_entity, << >>, << >>, None)

\* ClaimVerifier._verify_generic (verifier.py lines 531-571), given what
\* spread(subject) returned: the first result that is the object entity
\* makes the claim PLAUSIBLE
_verify_generic(claim, claim_type, subject, object_entity, spread_results) ==
    LET hit == FirstIndex({ ix \in 1..Len(spread_results) :
                              spread_results[ix].id = The(object_entity) })
    IN  IF IsNone(object_entity)
        THEN VerificationResult(claim, UNVERIFIABLE, Some(claim_type), Conf(20),
                 Some(subject), None, << >>, << >>, None)
        ELSE IF hit # 0
        THEN VerificationResult(claim, PLAUSIBLE, Some(claim_type),
                 spread_results[hit].activation, Some(subject), object_entity,
                 << "Activation path: " \o Join(spread_results[hit].path, " -> ") >>,
                 << >>, None)
        ELSE VerificationResult(claim, UNVERIFIABLE, Some(ATTRIBUTION), Conf(30),
                 Some(subject), object_entity, << >>, << >>, None)

(***************************************************************************)
(* Knowledge bases and claims the verifier is run on                       *)
(***************************************************************************)
\* most link rows, and most anchor rows, of a knowledge base
MaxLinks == 2
MaxAnchors == 2

Ent(id, label, pagerank) ==
    [ id |-> id, label |-> label, description |-> None, pagerank |-> pagerank ]
Pos(id, dimension, nodes) ==
    [ entity_id |-> id, dimension |-> dimension, path_nodes |-> nodes ]
Link(source, relation, target, weight) ==
    [ source_id |-> source, target_id |-> target, relation |-> relation,
      weight |-> weight ]
Anchor(anchor_id, label, category) ==
    [ anchor_id |-> anchor_id, label |-> label, category |-> category ]
HasAnchor(id, anchor_id, weight) ==
    [ entity_id |-> id, anchor_id |-> anchor_id, weight |-> weight ]

Paris == "Q90"
France == "Q142"
Germany == "Q183"
Bell == "Q34286"
Edison == "Q8743"
Telephone == "Q11035"
Einstein == "Q937"
Year1879 == "Q7823"

BaseStore ==
    [ entities |-> << Ent(Paris, "Paris", 90), Ent(France, "France", 80),
                      Ent(Germany, "Germany", 70),
                      Ent(Bell, "Alexander Graham Bell", 60),
                      Ent(Edison, "Thomas Edison", 50),
                      Ent(Telephone, "Telephone", 40),
                      Ent(Einstein, "Albert Einstein", 30),
                      Ent(Year1879, "1879", 20) >>,
      positions |-> << >>,
      properties |-> << >>,
      entity_links |-> << >>,
      anchor_dictionary |-> << Anchor(1, "French cities", "GEOGRAPHY"),
                               Anchor(2, "City of Light", "KNOWN_FOR"),
                               Anchor(3, "France", "SCOPE"),
                               Anchor(4, "Nobel laureates", "HISTORY") >>,
      entity_anchors |-> << >> ]

\* the subsequences of rows with at most n rows
SubSeqs(rows, n) ==
    { LET Kept(k) == Cardinality({ j \in S : j <= k })
          Nth(m) == CHOOSE k \in S : Kept(k) = m
      IN  [ m \in 1..Cardinality(S) |-> rows[Nth(m)] ] :
        S \in { T \in SUBSET (1..Len(rows)) : Cardinality(T) <= n } }

Reverse(seq) == [ i \in 1..Len(seq) |-> seq[Len(seq) + 1 - i] ]

\* the tables of at most n of the rows, in either order
Tables(rows, n) == SubSeqs(rows, n) \cup SubSeqs(Reverse(rows), n)

\* knowledge bases for location claims: the SPATIAL position, the
\* relations and the anchors of Paris vary
SpatialOptions ==
    { << >>,
      << Pos(Paris, SPATIAL, << "Earth", "Europe", "France", "Paris" >>) >>,
      << Pos(Paris, SPATIAL, << "Earth", "Europe" >>) >>,
      << Pos(Paris, SPATIAL, << >>) >> }
LocationLinks ==
    << Link(Paris, "capital_of", France, 10),
       Link(Paris, "located_in", Germany, 5),
       Link(Paris, "AtLocation", France, 10) >>
LocationAnchors ==
    << HasAnchor(Paris, 3, 9), HasAnchor(Paris, 1, 9) >>
LocationStores ==
    { [ BaseStore EXCEPT !.positions = p, !.entity_links = l, !.entity_anchors = a ] :
        p \in SpatialOptions, l \in SubSeqs(LocationLinks, MaxLinks),
        a \in SubSeqs(LocationAnchors, MaxAnchors) }

\* knowledge bases for attribution claims: the relations between the
\* inventors and the telephone vary
AttributionLinks ==
    << Link(Bell, "invented", Telephone, 10),
       Link(Bell, "InventorOf", Telephone, 10),
       Link(Edison, "RelatedTo", Telephone, 5),
       Link(Edison, "co_invented", Telephone, 5),
       Link(Bell, "RelatedTo", Telephone, 5) >>
AttributionStores ==
    { [ BaseStore EXCEPT !.entity_links = l ] :
        l \in Tables(AttributionLinks, MaxLinks) }

\* knowledge bases for property claims: the TAXONOMIC and DOMAIN
\* positions, the description, the properties and the anchors of Paris vary
WithDescription(rows, id, description) ==
    [ i \in 1..Len(rows) |->
        IF rows[i].id = id THEN [ rows[i] EXCEPT !.description = description ]
        ELSE rows[i] ]
PropertyStores ==
    { [ BaseStore EXCEPT
          !.entities = WithDescription(BaseStore.entities, Paris, d),
          !.positions = t \o k, !.properties = v, !.entity_anchors = a ] :
        t \in { << >>, << Pos(Paris, TAXONOMIC, << "Thing", "Place", "City" >>) >> },
        k \in { << >>, << Pos(Paris, DOMAIN_DIM, << "Knowledge", "Geography", "Capital" >>) >> },
        d \in { None, Some(""), Some("Capital and largest city of France") },
        v \in { << >>,
                << [ entity_id |-> Paris, key |-> "population", value |-> "2102650" ],
                   [ entity_id |-> Paris, key |-> "instance_of", value |-> "City" ] >> },
        a \in SubSeqs(<< HasAnchor(Paris, 2, 5), HasAnchor(Paris, 1, 9) >>, MaxAnchors - 1) }

\* knowledge bases for the claims of the generic strategy: the relations
\* and the shared anchors of Einstein and the year 1879 vary
GenericLinks ==
    << Link(Einstein, "born_in", Year1879, 10),
       Link(Year1879, "related_to", Einstein, 2),
       Link(Einstein, "located_in", Germany, 10) >>
GenericAnchors ==
    << HasAnchor(Einstein, 4, 9), HasAnchor(Year1879, 4, 9) >>
GenericStores ==
    { [ BaseStore EXCEPT !.entity_links = l, !.entity_anchors = a ] :
        l \in SubSeqs(GenericLinks, MaxLinks),
        a \in SubSeqs(GenericAnchors, MaxAnchors) }

Stores == LocationStores \cup AttributionStores \cup PropertyStores
              \cup GenericStores

Claims ==
    { "Paris is in france",
      "Paris is the capital of France.",
      "Paris is in Germany",
      "paris is located in the FRANCE",
      "Xyzzy123 is in France",
      "Thomas Edison invented the telephone",
      "Alexander Graham Bell invented the Telephone.",
      "Bell is the inventor of the telephone",
      "Paris is a city",
      "Paris was a capital",
      "Paris is a Place",
      "Paris is a  .",
      "Albert Einstein was born in 1879",
      "Albert Einstein was born in 1880",
      "hello world" }

(***************************************************************************)
(* ClaimVerifier.verify as a state machine: the call, the parse, the       *)
(* grounding of the mentions and the type-specific strategy are steps.     *)
(***************************************************************************)
VARIABLES
    store,            \* the knowledge base of the EntityStore
    pc,               \* where verify stands: idle, called, parsed, grounded,
                      \* spreading, done
    claim,            \* the claim being verified
    parsed,           \* what _parse_claim returned
    subject_entity,   \* what _ground_entity returned for the subject
    object_entity,    \* what _ground_entity returned for the object
    strategy,         \* the _verify_* method verify dispatched to, if any
    calls,            \* the store lookups made since verify was called
    result,           \* the VerificationResult verify returns
    sources,          \* spread_multiple: the sources, in the order of the dict
    activations,      \* spread_multiple: the dict activations, in insertion order
    visited,          \* spread_multiple: the set visited
    queue,            \* spread_multiple: the heap
    pops,             \* spread_multiple: the entries popped so far, in order
    read,             \* what the caller last read from result.effective_status
    config,           \* the SpreadingConfig of the SpreadingActivation
    use_anchors,      \* spread_multiple: whether layer 2 is spread through
    results,          \* what spread_multiple returned
    call,             \* the EntityProfile method called, with its arguments
    returned          \* what the EntityProfile method returned

spread_vars == << sources, activations, visited, queue, pops >>

engine_vars == << config, use_anchors, results >>

profile_vars == << call, returned >>

vars == << store, pc, claim, parsed, subject_entity, object_entity, strategy,
           calls, result, sources, activations, visited, queue, pops, read,
           config,
           use_anchors, results, call, returned >>

\* the locals of spread_multiple as one record
spread_state ==
    [ activations |-> activations, visited |-> visited, queue |-> queue ]

Idle ==
    /\ pc = "idle"
    /\ claim = ""
    /\ parsed = None
    /\ subject_entity = None
    /\ object_entity = None
    /\ strategy = None
    /\ calls = {}
    /\ result = None
    /\ sources = << >>
    /\ activations = << >>
    /\ visited = {}
    /\ queue = {}
    /\ pops = << >>
    /\ read = None
    /\ results = None
    /\ call = None
    /\ returned = None

\* ClaimVerifier.__init__ (verifier.py line 157): the verifier's engine has
\* the default SpreadingConfig
Init ==
    /\ store \in Stores
    /\ config = SpreadingConfig
    /\ use_anchors = config.use_anchors
    /\ Idle

\* verify(claim) is called
Verify(c) ==
    /\ pc = "idle"
    /\ pc' = "called"
    /\ claim' = c
    /\ UNCHANGED << store, parsed, subject_entity, object_entity, strategy,
                    calls, result, spread_vars, read,
                    engine_vars, profile_vars >>

\* lines 171-180: the claim is parsed; an unparseable claim is returned as
\* UNVERIFIABLE
Parse ==
    /\ pc = "called"
    /\ parsed' = _parse_claim(claim)
    /\ IF IsNone(parsed')
       THEN /\ result' = Some(Unparsed(claim))
            /\ pc' = "done"
       ELSE /\ result' = result
            /\ pc' = "parsed"
    /\ UNCHANGED << store, claim, subject_entity, object_entity, strategy, calls,
                    spread_vars, read,
                    engine_vars, profile_vars >>

\* lines 182-192: both mentions are grounded; without a subject entity the
\* claim is returned as UNVERIFIABLE
Ground ==
    /\ pc = "parsed"
    /\ \E s \in _ground_entity(store, The(parsed).subject) :
       \E o \in ( IF The(parsed).object # ""
                  THEN _ground_entity(store, The(parsed).object)
                  ELSE { [ value |-> None, calls |-> {} ] } ) :
          /\ subject_entity' = s.value
          /\ object_entity' = o.value
          /\ calls' = calls \cup s.calls \cup o.calls
          /\ IF IsNone(s.value)
             THEN /\ result' = Some(Ungrounded(claim, The(parsed).type))
                  /\ pc' = "done"
             ELSE /\ result' = result
                  /\ pc' = "grounded"
    /\ UNCHANGED << store, claim, parsed, strategy, spread_vars, read,
                    engine_vars, profile_vars >>

\* lines 195-198
VerifyAttribution ==
    /\ pc = "grounded"
    /\ The(parsed).type = ATTRIBUTION
    /\ LET out == _verify_attribution(store, claim, The(subject_entity),
                      The(parsed).relation, The(parsed).object, object_entity)
       IN  /\ result' = Some(out.result)
           /\ calls' = calls \cup out.calls
    /\ strategy' = Some("_verify_attribution")
    /\ pc' = "done"
    /\ UNCHANGED << store, claim, parsed, subject_entity, object_entity,
                    spread_vars, read,
                    engine_vars, profile_vars >>

\* lines 199-202
VerifyLocation ==
    /\ pc = "grounded"
    /\ The(parsed).type = LOCATION
    /\ \E anchors \in get_entity_anchors(store, The(subject_entity)) :
         LET out == _verify_location(store, claim, The(subject_entity),
                        The(parsed).object, object_entity, anchors)
         IN  /\ result' = Some(out.result)
             /\ calls' = calls \cup out.calls
    /\ strategy' = Some("_verify_location")
    /\ pc' = "done"
    /\ UNCHANGED << store, claim, parsed, subject_entity, object_entity,
                    spread_vars, read,
                    engine_vars, profile_vars >>

\* lines 203-206
VerifyProperty ==
    /\ pc = "grounded"
    /\ The(parsed).type = PROPERTY
    /\ \E anchors \in get_entity_anchors(store, The(subject_entity)) :
         LET out == _verify_property(store, claim, The(subject_entity),
                        The(parsed).object, anchors)
         IN  /\ result' = Some(out.result)
             /\ calls' = calls \cup out.calls
    /\ strategy' = Some("_verify_property")
    /\ pc' = "done"
    /\ UNCHANGED << store, claim, parsed, subject_entity, object_entity,
                    spread_vars, read,
                    engine_vars, profile_vars >>

\* lines 207-210 and 540-550: the generic strategy; without an object entity
\* the claim is returned as UNVERIFIABLE, otherwise spread(subject) is
\* called (spreading.py lines 150-153 and 170-184)
VerifyGeneric ==
    /\ pc = "grounded"
    /\ The(parsed).type \notin { ATTRIBUTION, LOCATION, PROPERTY }
    /\ strategy' = Some("_verify_generic")
    /\ IF IsNone(object_entity)
       THEN /\ result' = Some(_verify_generic(claim, The(parsed).type,
                                  The(subject_entity), object_entity, << >>))
            /\ pc' = "done"
            /\ UNCHANGED << spread_vars, use_anchors >>
       ELSE LET from == << [ id |-> The(subject_entity), activation |-> Conf(100) ] >>
                s == SpreadStart(from)
            IN  /\ sources' = from
                /\ use_anchors' = config.use_anchors
                /\ activations' = s.activations
                /\ visited' = s.visited
                /\ queue' = s.queue
                /\ pops' = << >>
                /\ result' = result
                /\ pc' = "spreading"
    /\ UNCHANGED << store, claim, parsed, subject_entity, object_entity, calls,
                    read, config, results, profile_vars >>

\* spreading.py lines 187-278: one iteration of the loop of spread_multiple
Spread ==
    /\ pc = "spreading"
    /\ Spreading(spread_state, config)
    /\ LET e == HeapTop(queue)
       IN  \E plan \in AnchorPlans(store, config, e.id) :
             LET s == SpreadStep(store, spread_state, config, use_anchors, plan)
             IN  /\ activations' = s.activations
                 /\ visited' = s.visited
                 /\ queue' = s.queue
                 /\ pops' = Append(pops,
                      [ id |-> e.id, activation |-> e.activation,
                        depth |-> e.depth, fresh |-> e.id \notin visited,
                        expanded |-> Expands(spread_state, config, e),
                        recorded |-> activations[Recorded(spread_state, e.id)] ])
                 /\ calls' = calls \cup
                      ( IF Expands(spread_state, config, e)
                        THEN { Call("get_related", e.id) } \cup
                             ( IF use_anchors
                               THEN { Call("get_entity_anchors", e.id) }
                                    \cup { Call("get_entities_with_anchor",
                                                plan[i].anchor.label) :
                                           i \in 1..Len(plan) }
                               ELSE {} )
                        ELSE {} )
    /\ UNCHANGED << store, pc, claim, parsed, subject_entity, object_entity,
                    strategy, result, sources, read, engine_vars, profile_vars >>

\* the store lookups of spreading.py line 286
ProfileLookups ==
    { Call("get", activations[i].id) : i \in
        { j \in 1..Len(activations) :
            \A k \in 1..Len(sources) : sources[k].id # activations[j].id } }

\* spreading.py lines 280-298 and verifier.py lines 552-571: spread returns
\* its results, which are searched for the object entity
GenericFinish ==
    /\ pc = "spreading"
    /\ strategy = Some("_verify_generic")
    /\ ~Spreading(spread_state, config)
    /\ results' = Some(BuildResults(store, spread_state, sources, config))
    /\ result' = Some(_verify_generic(claim, The(parsed).type,
                          The(subject_entity), object_entity, The(results')))
    /\ calls' = calls \cup ProfileLookups
    /\ pc' = "done"
    /\ UNCHANGED << store, claim, parsed, subject_entity, object_entity, strategy,
                    spread_vars, read, config, use_anchors, profile_vars >>

\* lines 73-83: the caller reads result.effective_status; the property
\* assigns nothing
ReadEffectiveStatus ==
    /\ pc \in { "done", "held" }
    /\ read' = Some(effective_status(The(result)))
    /\ UNCHANGED << store, pc, claim, parsed, subject_entity, object_entity,
                    strategy, calls, result, spread_vars, engine_vars,
                    profile_vars >>

\* the caller drops the result; the verifier keeps nothing of the call
Return ==
    /\ pc = "done"
    /\ pc' = "idle"
    /\ claim' = ""
    /\ parsed' = None
    /\ subject_entity' = None
    /\ object_entity' = None
    /\ strategy' = None
    /\ calls' = {}
    /\ result' = None
    /\ sources' = << >>
    /\ activations' = << >>
    /\ visited' = {}
    /\ queue' = {}
    /\ pops' = << >>
    /\ read' = None
    /\ results' = None
    /\ UNCHANGED << store, config, use_anchors, profile_vars >>

Next ==
    \/ \E c \in Claims : Verify(c)
    \/ Parse
    \/ Ground
    \/ VerifyAttribution
    \/ VerifyLocation
    \/ VerifyProperty
    \/ VerifyGeneric
    \/ Spread
    \/ GenericFinish
    \/ ReadEffectiveStatus
    \/ Return

Spec == Init /\ [][Next]_vars

(***************************************************************************)
(* VerificationResult on its own: a result of any status and confidence    *)
(* is held by a caller that reads its properties.                          *)
(***************************************************************************)
\* the confidences are spread over ConfidenceGrid steps from 0.0 to 1.0
ConfidenceGrid == 20

Confidences ==
    { (Conf(100) * k) \div ConfidenceGrid : k \in 0..ConfidenceGrid }
      \cup { VERIFICATION_CONFIDENCE_THRESHOLD - 1,
             VERIFICATION_CONFIDENCE_THRESHOLD,
             VERIFICATION_CONFIDENCE_THRESHOLD + 1 }

InitResult ==
    /\ store = BaseStore
    /\ pc = "held"
    /\ claim = "Paris is in France"
    /\ \E status \in VerificationStatus, confidence \in Confidences :
         result = Some(VerificationResult(claim, status, None, confidence,
                           None, None, << >>, << >>, None))
    /\ parsed = None
    /\ subject_entity = None
    /\ object_entity = None
    /\ strategy = None
    /\ calls = {}
    /\ sources = << >>
    /\ activations = << >>
    /\ visited = {}
    /\ queue = {}
    /\ pops = << >>
    /\ read = None
    /\ config = SpreadingConfig
    /\ use_anchors = config.use_anchors
    /\ results = None
    /\ call = None
    /\ returned = None

NextResult == ReadEffectiveStatus

SpecResult == InitResult /\ [][NextResult]_vars
(***************************************************************************)
(* SpreadingActivation on its own: spread and spread_multiple are called   *)
(* on an engine of some configuration over some knowledge base.            *)
(***************************************************************************)
\* knowledge bases for spread: relations among Paris, France and Germany
\* (two relations to one target, a relation back to the source, a chain of
\* two hops, weights above 1.0 and of 0.0, a relation of a name without a
\* configured weight) and anchors they share, one of
\* them with Q0, an id that the table entities does not hold
SpreadLinks ==
    << Link(Paris, "same_as", Germany, 5),
       Link(Paris, "located_in", France, 10),
       Link(Paris, "capital_of", France, 10),
       Link(France, "related_to", Paris, 10),
       Link(France, "located_in", Germany, 10),
       Link(Paris, "same_as", Germany, 20),
       Link(Paris, "twinned_with", Germany, 0),
       Link(Germany, "twinned_with", France, 50) >>
SpreadAnchors ==
    << HasAnchor(Paris, 1, 9), HasAnchor(France, 1, 9),
       HasAnchor(Germany, 1, 10), HasAnchor("Q0", 1, 10),
       HasAnchor(Paris, 3, 20) >>
SpreadStores ==
    { [ BaseStore EXCEPT !.entity_links = l, !.entity_anchors = a ] :
        l \in SubSeqs(SpreadLinks, MaxLinks),
        a \in SubSeqs(SpreadAnchors, MaxAnchors) }

\* the configurations of the engine: the defaults, and the defaults with
\* one or two fields set by the caller
Configs ==
    { SpreadingConfig,
      [ SpreadingConfig EXCEPT !.max_depth = 0 ],
      [ SpreadingConfig EXCEPT !.max_depth = 1 ],
      [ SpreadingConfig EXCEPT !.max_results = 1 ],
      [ SpreadingConfig EXCEPT !.threshold = 0 ],
      [ SpreadingConfig EXCEPT !.use_anchors = FALSE ],
      [ SpreadingConfig EXCEPT !.anchor_limit = 1, !.max_anchors = 1 ] }

InitSpread ==
    /\ store \in SpreadStores
    /\ config \in Configs
    /\ use_anchors = config.use_anchors
    /\ Idle

\* spreading.py lines 155-184: spread_multiple(sources, use_anchors) is
\* called; from lists the items of the dict sources
spread_multiple(from, override) ==
    /\ pc = "idle"
    /\ pc' = "spreading"
    /\ sources' = from
    /\ use_anchors' = IF IsNone(override) THEN config.use_anchors
                      ELSE The(override)
    /\ LET s == SpreadStart(from)
       IN  /\ activations' = s.activations
           /\ visited' = s.visited
           /\ queue' = s.queue
           /\ pops' = << >>
    /\ UNCHANGED << store, claim, parsed, subject_entity, object_entity,
                    strategy, calls, result, read, config, results,
                    profile_vars >>

\* spreading.py lines 133-153: spread(source_id, initial_activation,
\* use_anchors)
spread(source_id, initial_activation, override) ==
    spread_multiple(<< [ id |-> source_id, activation |-> initial_activation ] >>,
                    override)

\* spreading.py lines 280-298: the loop has ended and spread_multiple
\* returns its results
SpreadReturn ==
    /\ pc = "spreading"
    /\ strategy = None
    /\ ~Spreading(spread_state, config)
    /\ results' = Some(BuildResults(store, spread_state, sources, config))
    /\ calls' = calls \cup ProfileLookups
    /\ pc' = "returned"
    /\ UNCHANGED << store, claim, parsed, subject_entity, object_entity,
                    strategy, result, spread_vars, read, config, use_anchors,
                    profile_vars >>

\* spread is called with the initial activations 1.0 (the default), 0.1
\* (below the default threshold) and 2.0, and with use_anchors None (the
\* default), True and False
NextSpread ==
    \/ \E a \in { Conf(100), Conf(10), Conf(200) },
          o \in { None, Some(TRUE), Some(FALSE) } : spread(Paris, a, o)
    \/ \E o \in { None, Some(TRUE), Some(FALSE) } :
         spread_multiple(<< [ id |-> Paris, activation |-> Conf(100) ],
                            [ id |-> France, activation |-> Conf(50) ] >>, o)
    \/ Spread
    \/ SpreadReturn

SpecSpread == InitSpread /\ [][NextSpread]_vars

(***************************************************************************)
(* spread_multiple runs to its return: the loop of lines 187-278 is        *)
(* synchronous, so an iteration that can run does run, and so does the     *)
(* return once the loop has ended.  The knowledge bases hold relation      *)
(* cycles whose weights multiply an activation, and anchors shared by      *)
(* entities that reach each other.                                         *)
(***************************************************************************)
CycleLinks ==
    << Link(Paris, "same_as", Germany, 20),
       Link(Germany, "twinned_with", France, 50),
       Link(France, "same_as", Paris, 20),
       Link(France, "related_to", Germany, 10) >>
CycleAnchors ==
    << HasAnchor(Paris, 1, 9), HasAnchor(France, 1, 20),
       HasAnchor(Germany, 3, 10), HasAnchor(Paris, 3, 10) >>
CycleStores ==
    { [ BaseStore EXCEPT !.entity_links = l, !.entity_anchors = a ] :
        l \in { << >>, CycleLinks }, a \in { CycleAnchors } }

InitSpreadLive ==
    /\ store \in CycleStores
    /\ config \in { [ SpreadingConfig EXCEPT !.max_depth = 10 ],
                    [ SpreadingConfig EXCEPT !.max_results = 1 ] }
    /\ use_anchors = config.use_anchors
    /\ Idle

SpecSpreadLive ==
    InitSpreadLive /\ [][NextSpread]_vars /\ WF_vars(Spread) /\ WF_vars(SpreadReturn)

(***************************************************************************)
(* EntityProfile on its own: the tree operations are called on profiles    *)
(* read from a knowledge base whose positions vary.                        *)
(***************************************************************************)
\* the longest path of Paris
MaxPath == 3

\* the sequences of at most n of the nodes Earth, earth, Europe and Mars
RECURSIVE PathsUpTo(_)
PathsUpTo(n) ==
    IF n = 0 THEN { << >> }
    ELSE LET shorter == PathsUpTo(n - 1)
         IN  shorter \cup { Append(p, node) : p \in shorter, node \in { "Earth", "earth", "Europe", "Mars" } }

\* dimension_positions of Paris and France: Paris has a TAXONOMIC position
\* and, after it, no SPATIAL position or one with any path; France has no
\* SPATIAL position or one of a few paths
ParisPositions ==
    { << Pos(Paris, TAXONOMIC, << "Thing", "Place", "City" >>) >> }
      \cup { << Pos(Paris, TAXONOMIC, << "Thing", "Place", "City" >>),
                Pos(Paris, SPATIAL, p) >> : p \in PathsUpTo(MaxPath) }
FrancePositions ==
    { << >> } \cup
    { << Pos(France, SPATIAL, p) >> :
        p \in { << >>, << "Earth" >>, << "EARTH", "europe" >>,
                << "Earth", "Europe", "France" >>, << "Mars" >>,
                << "Earth", "Mars", "Europe", "Mars" >> } }
ProfileStores ==
    { [ BaseStore EXCEPT !.positions = a \o b ] :
        a \in ParisPositions, b \in FrancePositions }

InitProfile ==
    /\ store \in ProfileStores
    /\ config = SpreadingConfig
    /\ use_anchors = config.use_anchors
    /\ Idle

\* the profile of id is asked is_descendant_of(ancestor_label, dimension)
IsDescendantOf(id, ancestor_label, dimension) ==
    /\ call = None
    /\ call' = Some([ method |-> "is_descendant_of", self |-> id,
                      arg |-> ancestor_label, dimension |-> dimension ])
    /\ returned' = Some(is_descendant_of(store, id, ancestor_label, dimension))
    /\ UNCHANGED << store, pc, claim, parsed, subject_entity, object_entity,
                    strategy, calls, result, spread_vars, read, engine_vars >>

\* the profile of id is asked shared_ancestor(other, dimension)
SharedAncestor(id, other, dimension) ==
    /\ call = None
    /\ call' = Some([ method |-> "shared_ancestor", self |-> id,
                      arg |-> other, dimension |-> dimension ])
    /\ returned' = Some(shared_ancestor(store, id, other, dimension))
    /\ UNCHANGED << store, pc, claim, parsed, subject_entity, object_entity,
                    strategy, calls, result, spread_vars, read, engine_vars >>

\* the profile of id is asked hierarchical_distance(other, dimension)
HierarchicalDistance(id, other, dimension) ==
    /\ call = None
    /\ call' = Some([ method |-> "hierarchical_distance", self |-> id,
                      arg |-> other, dimension |-> dimension ])
    /\ returned' = Some(hierarchical_distance(store, id, other, dimension))
    /\ UNCHANGED << store, pc, claim, parsed, subject_entity, object_entity,
                    strategy, calls, result, spread_vars, read, engine_vars >>

NextProfile ==
    \/ \E id \in { Paris, France }, d \in GroundingDimension,
          l \in { "earth", "EUROPE", "Mars", "city", "" } :
             IsDescendantOf(id, l, d)
    \/ \E id, other \in { Paris, France }, d \in GroundingDimension :
          SharedAncestor(id, other, d)
    \/ \E id, other \in { Paris, France }, d \in GroundingDimension :
          HierarchicalDistance(id, other, d)

SpecProfile == InitProfile /\ [][NextProfile]_vars

(***************************************************************************)
(* _ground_entity on its own: mentions are grounded against knowledge      *)
(* bases whose entities vary.                                              *)
(***************************************************************************)
\* the most entities of a knowledge base
MaxEntities == 3

\* the rows of the table entities: labels with and without an article,
\* labels that differ in case only, labels that contain another label, and
\* two rows of equal pagerank
GroundEntities ==
    << Ent("Q36600", "The Hague", 50), Ent("Q1", "Hague Convention", 90),
       Ent("Q2", "Hague Academy", 90), Ent(Paris, "Paris", 90),
       Ent("Q3", "PARIS", 95), Ent("Q4", "Parisian", 99) >>
GroundStores ==
    { [ BaseStore EXCEPT !.entities = e ] :
        e \in SubSeqs(GroundEntities, MaxEntities) }

InitGround ==
    /\ store \in GroundStores
    /\ config = SpreadingConfig
    /\ use_anchors = config.use_anchors
    /\ Idle

\* _ground_entity(mention) is called and returns
GroundEntity(mention) ==
    /\ call = None
    /\ \E r \in _ground_entity(store, mention) :
         /\ call' = Some([ method |-> "_ground_entity", self |-> "",
                           arg |-> mention, dimension |-> "" ])
         /\ returned' = Some(r.value)
         /\ calls' = r.calls
    /\ UNCHANGED << store, pc, claim, parsed, subject_entity, object_entity,
                    strategy, result, spread_vars, read, engine_vars >>

NextGround ==
    \E mention \in { "The Hague", "the hague", "Hague", "Paris", " paris ",
                     "a Paris", "An Xyzzy", "hag" } :
        GroundEntity(mention)

SpecGround == InitGround /\ [][NextGround]_vars

(***************************************************************************)
(* Properties of verify                                                    *)
(***************************************************************************)
\* verify has returned a result for a claim of type t whose subject grounded
Verified(t) ==
    /\ pc = "done"
    /\ IsSome(parsed) /\ The(parsed).type = t
    /\ IsSome(subject_entity)

\* row is the SPATIAL position of the subject
SpatialOfSubject(row) ==
    row.entity_id = The(subject_entity) /\ row.dimension = SPATIAL

\* the claimed place is, case-insensitively, a node of the path
PlaceOnPath(nodes) ==
    \E k \in 1..Len(nodes) : Lower(nodes[k]) = Lower(The(parsed).object)

\* C1: a location claim whose subject grounds and whose claimed place
\* equals, case-insensitively, a node of the subject's SPATIAL path is
\* SUPPORTED with confidence 0.95 and one supporting evidence listing the
\* full path root first, whatever the subject's relations and anchors are
C1_PlaceOnPathSupported ==
    \A i \in 1..Len(store.positions) :
      LET row == store.positions[i]
      IN  ( /\ Verified(LOCATION)
            /\ SpatialOfSubject(row)
            /\ PlaceOnPath(row.path_nodes) )
          => /\ The(result).status = SUPPORTED
             /\ The(result).confidence = Conf(95)
             /\ The(result).supporting_evidence =
                  << "SPATIAL hierarchy: " \o Join(row.path_nodes, " > ") >>

\* a place given in another case than the path's node was SUPPORTED while
\* the subject has relations and anchors
C1_Witness ==
    /\ Verified(LOCATION)
    /\ strategy = Some("_verify_location")
    /\ The(parsed).object = "france"
    /\ \E i \in 1..Len(store.positions) :
         /\ SpatialOfSubject(store.positions[i])
         /\ PlaceOnPath(store.positions[i].path_nodes)
    /\ store.entity_links # << >>
    /\ store.entity_anchors # << >>
    /\ The(result).status = SUPPORTED

\* C2: a location claim whose subject has a SPATIAL position whose path does
\* not contain the claimed place (case-insensitively) is CONTRADICTED with
\* confidence 0.8, the full path as contradicting evidence and a correction
\* built from the last three (or fewer) nodes; it is never SUPPORTED, and
\* neither the subject's relations nor its anchors are looked up
C2_PlaceOffPathContradicted ==
    \A i \in 1..Len(store.positions) :
      LET row == store.positions[i]
          n == Len(row.path_nodes)
          tail == SubSeq(row.path_nodes, IF n > 3 THEN n - 2 ELSE 1, n)
      IN  ( /\ Verified(LOCATION)
            /\ SpatialOfSubject(row)
            /\ ~PlaceOnPath(row.path_nodes) )
          => /\ The(result).status = CONTRADICTED
             /\ The(result).status # SUPPORTED
             /\ The(result).confidence = Conf(80)
             /\ The(result).contradicting_evidence =
                  << "SPATIAL hierarchy: " \o Join(row.path_nodes, " > ") >>
             /\ The(result).correction =
                  Some(label_of(store, The(subject_entity)) \o " is located in "
                       \o Join(tail, " > "))
             /\ \A c \in calls : c[1] \notin { "get_related", "get_entity_anchors" }

\* a claim was CONTRADICTED against a path of four nodes although the
\* subject holds a location relation to the claimed place
C2_Witness ==
    /\ Verified(LOCATION)
    /\ The(parsed).object = "Germany"
    /\ \E i \in 1..Len(store.positions) :
         /\ SpatialOfSubject(store.positions[i])
         /\ Len(store.positions[i].path_nodes) = 4
    /\ \E j \in 1..Len(store.entity_links) :
         /\ store.entity_links[j].source_id = The(subject_entity)
         /\ store.entity_links[j].relation = "located_in"
         /\ store.entity_links[j].target_id = Germany
    /\ The(result).status = CONTRADICTED
    /\ The(result).correction = Some("Paris is located in Europe > France > Paris")

\* the relation name is in the verb's table after normalization
InTable(rel, verb) == normalize_relation(rel) \in normalized_types(verb)

\* ... or is the generic RelatedTo
InTableOrRelatedTo(rel, verb) ==
    InTable(rel, verb) \/ normalize_relation(rel) = "relatedto"

\* ... or contains, in lower case, an entry of the verb's table
InTableOrRelatedToOrContains(rel, verb) ==
    \/ InTableOrRelatedTo(rel, verb)
    \/ \E k \in 1..Len(relation_types(verb)) :
         Contains(Lower(rel), relation_types(verb)[k])

\* the link is held by the subject and leads to the grounded object or to a
\* label containing the object text
LinkToObject(link) ==
    /\ link.source_id = The(subject_entity)
    /\ \/ object_entity = Some(link.target_id)
       \/ Contains(Lower(label_of(store, link.target_id)), Lower(The(parsed).object))

\* the subject holds a relation to the object whose name is in the verb's
\* table after normalization or is RelatedTo
SupportedByTable ==
    \E j \in 1..Len(store.entity_links) :
      /\ LinkToObject(store.entity_links[j])
      /\ InTableOrRelatedTo(store.entity_links[j].relation, The(parsed).relation)

\* the subject holds a relation to the object whose name is in the verb's
\* table after normalization, contains an entry of it, or is RelatedTo
SupportedByMatch ==
    \E j \in 1..Len(store.entity_links) :
      /\ LinkToObject(store.entity_links[j])
      /\ InTableOrRelatedToOrContains(store.entity_links[j].relation, The(parsed).relation)

\* C3: for an attribution claim whose subject S and object O ground, where S
\* has no supporting relation to O and an entity H other than S holds a
\* relation into O whose name matches the verb's table, verify returns
\* CONTRADICTED with confidence 0.85, a contradicting evidence that names H
\* and a correction that names H's label
C3_OtherHolderContradicted ==
    ( /\ Verified(ATTRIBUTION)
      /\ IsSome(object_entity)
      /\ ~SupportedByMatch
      /\ \E j \in 1..Len(store.entity_links) :
           LET link == store.entity_links[j]
           IN  /\ link.target_id = The(object_entity)
               /\ link.source_id # The(subject_entity)
               /\ InTable(link.relation, The(parsed).relation) )
    => /\ The(result).status = CONTRADICTED
       /\ The(result).confidence = Conf(85)
       /\ \E j \in 1..Len(store.entity_links) :
            LET link == store.entity_links[j]
                holder == label_of(store, link.source_id)
            IN  /\ link.target_id = The(object_entity)
                /\ link.source_id # The(subject_entity)
                /\ Len(The(result).contradicting_evidence) = 1
                /\ Contains(The(result).contradicting_evidence[1], holder)
                /\ IsSome(The(result).correction)
                /\ Contains(The(The(result).correction), holder)

\* C4 as stated: an attribution claim with a grounded subject is SUPPORTED
\* with confidence 0.9 exactly when the subject holds a relation whose name
\* is in the verb's table after normalization, or is RelatedTo, to the
\* grounded object or to a label containing the object text; a result
\* neither SUPPORTED nor CONTRADICTED is UNVERIFIABLE with confidence 0.4
C4_SupportedExactlyWhenInTable ==
    Verified(ATTRIBUTION) =>
      /\ ( The(result).status = SUPPORTED /\ The(result).confidence = Conf(90) )
           <=> SupportedByTable
      /\ The(result).status \notin { SUPPORTED, CONTRADICTED }
           => ( The(result).status = UNVERIFIABLE /\ The(result).confidence = Conf(40) )

\* C4, amended: an attribution claim with a grounded subject is SUPPORTED
\* with confidence 0.9 exactly when the subject holds a relation whose name
\* is in the verb's table after normalization, or contains in lower case an
\* entry of the verb's table, or is RelatedTo, to the grounded object or to
\* a label containing the object text, whoever else holds a relation to the
\* object; a result neither SUPPORTED nor CONTRADICTED is UNVERIFIABLE with
\* confidence 0.4
C4_SupportedExactlyWhenMatched ==
    Verified(ATTRIBUTION) =>
      /\ ( The(result).status = SUPPORTED /\ The(result).confidence = Conf(90) )
           <=> SupportedByMatch
      /\ The(result).status = SUPPORTED
           => \A k \in 1..Len(The(result).supporting_evidence) :
                \E j \in 1..Len(store.entity_links) :
                  /\ LinkToObject(store.entity_links[j])
                  /\ InTableOrRelatedToOrContains(store.entity_links[j].relation,
                                                  The(parsed).relation)
                  /\ The(result).supporting_evidence[k] =
                       store.entity_links[j].relation \o ": "
                         \o label_of(store, store.entity_links[j].target_id)
      /\ The(result).status \notin { SUPPORTED, CONTRADICTED }
           => ( The(result).status = UNVERIFIABLE /\ The(result).confidence = Conf(40) )

\* a claim was SUPPORTED on a relation whose name only contains an entry of
\* the verb's table, while another entity holds a relation of the table to
\* the object
C4_Witness ==
    /\ Verified(ATTRIBUTION)
    /\ The(result).status = SUPPORTED
    /\ SupportedByMatch
    /\ ~SupportedByTable
    /\ \E j \in 1..Len(store.entity_links) :
         /\ store.entity_links[j].source_id # The(subject_entity)
         /\ object_entity = Some(store.entity_links[j].target_id)
         /\ InTable(store.entity_links[j].relation, The(parsed).relation)

\* C6: when a claim parses and its subject mention grounds to no entity,
\* verify returns UNVERIFIABLE with confidence 0.3 and the parsed claim
\* type, and no type-specific strategy runs
C6_UngroundedSubject ==
    ( pc = "done" /\ IsSome(parsed) /\ IsNone(subject_entity) )
    => /\ The(result).status = UNVERIFIABLE
       /\ The(result).confidence = Conf(30)
       /\ The(result).claim_type = Some(The(parsed).type)
       /\ The(result).subject_entity = None
       /\ strategy = None

\* a parsed claim was returned after every search for its subject came back
\* empty
C6_Witness ==
    /\ pc = "done"
    /\ IsSome(parsed)
    /\ IsNone(subject_entity)
    /\ Call("search", The(parsed).subject) \in calls
    /\ search(store, The(parsed).subject) = {}
    /\ IsSome(result)

\* C7 as stated: verify("Xyzzy123 is in France"), where no label contains
\* "Xyzzy123", returns UNVERIFIABLE with confidence 0.0
C7_UnknownSubjectZero ==
    ( pc = "done" /\ claim = "Xyzzy123 is in France" )
    => /\ The(result).status = UNVERIFIABLE
       /\ The(result).confidence = Conf(0)

\* C7, amended: verify("Xyzzy123 is in France"), where no label contains
\* "Xyzzy123", returns UNVERIFIABLE with confidence 0.3
C7_UnknownSubject ==
    ( pc = "done" /\ claim = "Xyzzy123 is in France" )
    => /\ The(result).status = UNVERIFIABLE
       /\ The(result).confidence = Conf(30)

\* the claim was parsed as a location claim and returned while no label of
\* the knowledge base contains "Xyzzy123"
C7_Witness ==
    /\ pc = "done"
    /\ claim = "Xyzzy123 is in France"
    /\ parsed = Some([ type |-> LOCATION, subject |-> "Xyzzy123",
                       relation |-> "in", object |-> "France" ])
    /\ \A i \in 1..Len(store.entities) :
         ~Contains(Lower(store.entities[i].label), Lower("Xyzzy123"))
    /\ The(result).status = UNVERIFIABLE

\* C8: a claim that matches none of the patterns is returned UNVERIFIABLE
\* with confidence 0.0, without a claim type, a subject entity or an object
\* entity, and without any store lookup
C8_Unparseable ==
    ( pc = "done" /\ IsNone(parsed) )
    => /\ The(result).status = UNVERIFIABLE
       /\ The(result).confidence = Conf(0)
       /\ The(result).claim_type = None
       /\ The(result).subject_entity = None
       /\ The(result).object_entity = None
       /\ subject_entity = None /\ object_entity = None
       /\ strategy = None
       /\ calls = {}

\* "hello world" was returned unparsed
C8_Witness ==
    /\ pc = "done"
    /\ claim = "hello world"
    /\ IsNone(parsed)
    /\ IsSome(result)

\* C9: every CONTRADICTED result verify returns has at least one
\* contradicting evidence and a non-empty correction, and every SUPPORTED
\* result has at least one supporting evidence
C9_VerdictsCarryEvidence ==
    pc = "done" =>
      /\ The(result).status = CONTRADICTED
           => /\ Len(The(result).contradicting_evidence) >= 1
              /\ IsSome(The(result).correction)
              /\ The(The(result).correction) # ""
      /\ The(result).status = SUPPORTED
           => Len(The(result).supporting_evidence) >= 1

\* a location claim was CONTRADICTED against a position with an empty path
C9_Witness ==
    /\ Verified(LOCATION)
    /\ The(result).status = CONTRADICTED
    /\ \E i \in 1..Len(store.positions) :
         /\ SpatialOfSubject(store.positions[i])
         /\ store.positions[i].path_nodes = << >>

\* the claimed property is, case-insensitively, a node of the subject's
\* path in the dimension
PropertyOnPath(dimension) ==
    \E i \in 1..Len(store.positions) :
      /\ store.positions[i].entity_id = The(subject_entity)
      /\ store.positions[i].dimension = dimension
      /\ \E k \in 1..Len(store.positions[i].path_nodes) :
           Lower(store.positions[i].path_nodes[k]) = Lower(The(parsed).object)

\* the subject has a description, and the claimed property is part of it
PropertyInDescription ==
    \E i \in 1..Len(store.entities) :
      /\ store.entities[i].id = The(subject_entity)
      /\ IsSome(store.entities[i].description)
      /\ The(store.entities[i].description) # ""
      /\ Contains(Lower(The(store.entities[i].description)), Lower(The(parsed).object))

PropertyInValue ==
    \E i \in 1..Len(store.properties) :
      /\ store.properties[i].entity_id = The(subject_entity)
      /\ Contains(Lower(store.properties[i].value), Lower(The(parsed).object))

PropertyInKnownFor ==
    \E i \in 1..Len(store.entity_anchors), j \in 1..Len(store.anchor_dictionary) :
      /\ store.entity_anchors[i].entity_id = The(subject_entity)
      /\ store.anchor_dictionary[j].anchor_id = store.entity_anchors[i].anchor_id
      /\ store.anchor_dictionary[j].category = "KNOWN_FOR"
      /\ Contains(Lower(store.anchor_dictionary[j].label), Lower(The(parsed).object))

\* C10: for a property claim with a grounded subject the first of these
\* checks that holds decides: the property on the TAXONOMIC path, SUPPORTED
\* 0.9; on the DOMAIN path, SUPPORTED 0.85; part of the description,
\* SUPPORTED 0.8; part of a property value, SUPPORTED 0.75; part of a
\* KNOWN_FOR anchor's label, PLAUSIBLE 0.65; otherwise UNVERIFIABLE 0.3 (all
\* compared in lower case); a property claim is never CONTRADICTED
C10_PropertyChecksInOrder ==
    Verified(PROPERTY) =>
      /\ << The(result).status, The(result).confidence >> =
           ( IF PropertyOnPath(TAXONOMIC) THEN << SUPPORTED, Conf(90) >>
             ELSE IF PropertyOnPath(DOMAIN_DIM) THEN << SUPPORTED, Conf(85) >>
             ELSE IF PropertyInDescription THEN << SUPPORTED, Conf(80) >>
             ELSE IF PropertyInValue THEN << SUPPORTED, Conf(75) >>
             ELSE IF PropertyInKnownFor THEN << PLAUSIBLE, Conf(65) >>
             ELSE << UNVERIFIABLE, Conf(30) >> )
      /\ The(result).status # CONTRADICTED

\* the DOMAIN path decided a claim whose property is also part of the
\* description, of a property value and of a KNOWN_FOR anchor's label
C10_Witness ==
    /\ Verified(PROPERTY)
    /\ ~PropertyOnPath(TAXONOMIC)
    /\ PropertyOnPath(DOMAIN_DIM)
    /\ PropertyInDescription
    /\ The(result).status = SUPPORTED
    /\ The(result).confidence = Conf(85)
    /\ strategy = Some("_verify_property")

\* C5: effective_status is UNVERIFIABLE when status is SUPPORTED or
\* CONTRADICTED and confidence is below 0.6, and is status in every other
\* case; reading it changes neither status nor confidence
C5_EffectiveStatus ==
    [][ read' # read /\ IsSome(read')
        => /\ The(read') =
                ( IF /\ The(result).status \in { SUPPORTED, CONTRADICTED }
                     /\ The(result).confidence < Conf(60)
                  THEN UNVERIFIABLE
                  ELSE The(result).status )
           /\ The(result').status = The(result).status
           /\ The(result').confidence = The(result).confidence ]_vars

\* a SUPPORTED result just below the threshold was read as UNVERIFIABLE
C5_Witness ==
    /\ pc = "held"
    /\ The(result).status = SUPPORTED
    /\ The(result).confidence = Conf(60) - 1
    /\ read = Some(UNVERIFIABLE)

(***************************************************************************)
(* Properties of the generic strategy                                      *)
(***************************************************************************)
\* verify has returned a result of the generic strategy for a claim whose
\* subject and object both grounded
GenericVerified ==
    /\ pc = "done"
    /\ IsSome(parsed)
    /\ The(parsed).type \notin { ATTRIBUTION, LOCATION, PROPERTY }
    /\ IsSome(subject_entity)
    /\ IsSome(object_entity)

\* the places of the object entity in what spread(subject) returned
ObjectAmongResults ==
    { i \in 1..Len(The(results)) : The(results)[i].id = The(object_entity) }

\* C11: a claim of the generic strategy whose subject and object both
\* ground is PLAUSIBLE, with the object's activation as confidence, exactly
\* when the object is among the results of spread(subject); otherwise it is
\* UNVERIFIABLE with confidence 0.3
C11_GenericPlausibleWhenActivated ==
    GenericVerified =>
        IF ObjectAmongResults # {}
        THEN /\ The(result).status = PLAUSIBLE
             /\ \A i \in ObjectAmongResults :
                  The(result).confidence = The(results)[i].activation
        ELSE /\ The(result).status = UNVERIFIABLE
             /\ The(result).confidence = Conf(30)

\* the year 1879 was activated from Einstein, behind a stronger result, and
\* the claim came back PLAUSIBLE with the year's activation
C11_Witness ==
    /\ GenericVerified
    /\ Len(The(results)) = 2
    /\ ObjectAmongResults = { 2 }
    /\ The(result).status = PLAUSIBLE
    /\ The(result).confidence = The(results)[2].activation
    /\ The(result).confidence < The(results)[1].activation

\* C12: every UNVERIFIABLE result verify returns has confidence 0.0 when the
\* claim failed to parse, and otherwise a confidence from 0.3 to 0.4; no
\* other confidence accompanies an UNVERIFIABLE status
C12_UnverifiableConfidence ==
    (pc = "done" /\ The(result).status = UNVERIFIABLE) =>
        IF IsNone(parsed)
        THEN The(result).confidence = Conf(0)
        ELSE /\ The(result).confidence >= Conf(30)
             /\ The(result).confidence <= Conf(40)

(***************************************************************************)
(* Properties of spread and spread_multiple                                *)
(***************************************************************************)
\* spread_multiple has returned its list
SpreadReturned == pc = "returned" /\ IsSome(results)

SourceIds == { sources[i].id : i \in 1..Len(sources) }

\* C13: the list spread / spread_multiple returns holds no source entity
\* and holds no entity twice, whatever the knowledge base and configuration
C13_NoSourceNoDuplicate ==
    SpreadReturned =>
        /\ \A i \in 1..Len(The(results)) : The(results)[i].id \notin SourceIds
        /\ \A i, j \in 1..Len(The(results)) :
             The(results)[i].id = The(results)[j].id => i = j

\* spread_multiple from Paris and France returned Germany once, and only
\* Germany, although a relation of each source leads to Germany
C13_Witness ==
    /\ SpreadReturned
    /\ Len(sources) = 2
    /\ Len(The(results)) = 1
    /\ The(results)[1].id = Germany
    /\ \E i, j \in 1..Len(store.entity_links) :
         /\ store.entity_links[i].source_id = Paris
         /\ store.entity_links[i].target_id = Germany
         /\ store.entity_links[j].source_id = France
         /\ store.entity_links[j].target_id = Germany
    /\ Len(activations) = 3

\* the entries of the run that the store knows and that are not sources
Eligible ==
    { i \in 1..Len(activations) :
        /\ activations[i].id \notin SourceIds
        /\ IsSome(get(store, activations[i].id)) }

ReturnedIds == { The(results)[i].id : i \in 1..Len(The(results)) }

\* C14: the list spread / spread_multiple returns is in non-increasing
\* order of activation and has at most max_results elements, and no entity
\* recorded in the run that was left out of it has a strictly higher
\* activation than a returned one
C14_SortedAndTruncated ==
    SpreadReturned =>
        /\ \A i, j \in 1..Len(The(results)) :
             i < j => The(results)[i].activation >= The(results)[j].activation
        /\ Len(The(results)) <= config.max_results
        /\ \A a \in Eligible : \A i \in 1..Len(The(results)) :
             activations[a].id \notin ReturnedIds
               => activations[a].activation <= The(results)[i].activation

\* with max_results = 1 the run recorded two entities, the second with the
\* higher activation, and returned the second alone
C14_Witness ==
    /\ SpreadReturned
    /\ config.max_results = 1
    /\ Cardinality(Eligible) = 2
    /\ Len(The(results)) = 1
    /\ \E a, b \in Eligible :
         /\ a < b
         /\ activations[a].activation < activations[b].activation
         /\ The(results)[1].id = activations[b].id

\* the entry the next iteration pops is one the loop does not expand: it is
\* at depth max_depth or deeper, or its activation is below the threshold
PopsUnexpandable ==
    /\ pc = "spreading"
    /\ queue # {}
    /\ \/ HeapTop(queue).depth >= config.max_depth
       \/ HeapTop(queue).activation < config.threshold

\* C15: an entity popped at depth >= max_depth or with an activation below
\* the threshold is not expanded (nothing is looked up, recorded or queued
\* for it), so that every returned result has a path of at most max_depth
\* hops, and with max_depth = 0 the returned list is empty
C15_DepthAndThresholdStopExpansion ==
    /\ [][ (PopsUnexpandable /\ pc' = "spreading")
             => /\ activations' = activations
                /\ calls' = calls
                /\ queue' \subseteq queue ]_vars
    /\ [](SpreadReturned =>
            /\ \A i \in 1..Len(The(results)) :
                 Len(The(results)[i].path) - 1 <= config.max_depth
            /\ (config.max_depth = 0 => The(results) = << >>))

\* with max_depth = 1 France was returned at one hop from Paris, and
\* Germany, one relation further, was not recorded
C15_Witness ==
    /\ SpreadReturned
    /\ config.max_depth = 1
    /\ SourceIds = { Paris }
    /\ Len(The(results)) = 1
    /\ The(results)[1].id = France
    /\ Len(The(results)[1].path) = 2
    /\ get_related(store, France, 20) # << >>
    /\ get_related(store, France, 20)[1].id = Germany
    /\ Len(activations) = 2
    /\ France \in visited

\* spread(source) has returned: a call with the one source
SpreadOfOne == SpreadReturned /\ Len(sources) = 1

\* the source has no relation edge: store.get_related(source) is empty
SourceWithoutEdges == get_related(store, sources[1].id, 20) = << >>

\* an anchor row of the source whose anchor is in the dictionary and is
\* also attached to another entity
SourceSharesAnchor ==
    \E i, j \in 1..Len(store.entity_anchors) :
        /\ store.entity_anchors[i].entity_id = sources[1].id
        /\ store.entity_anchors[j].entity_id # sources[1].id
        /\ store.entity_anchors[j].anchor_id = store.entity_anchors[i].anchor_id
        /\ \E k \in 1..Len(store.anchor_dictionary) :
             store.anchor_dictionary[k].anchor_id = store.entity_anchors[i].anchor_id

\* C16: spread(source) returns the empty list whenever the source has no
\* relation edge
C16_NoEdgesNoResults ==
    (SpreadOfOne /\ SourceWithoutEdges) => The(results) = << >>

\* C16, with the anchor layer accounted for: spread(source) returns the
\* empty list whenever the source has no relation edge and either layer 2
\* is off or the source shares no anchor with another entity
C16_NoEdgesNoSharedAnchorsNoResults ==
    (SpreadOfOne /\ SourceWithoutEdges /\ (~use_anchors \/ ~SourceSharesAnchor))
        => The(results) = << >>

\* spread(Paris, use_anchors=False) returned nothing for a Paris without
\* relations that shares an anchor with France, over a knowledge base
\* where France has relations
C16_Witness ==
    /\ SpreadOfOne
    /\ SourceWithoutEdges
    /\ ~use_anchors
    /\ config.use_anchors
    /\ SourceSharesAnchor
    /\ store.entity_links # << >>
    /\ The(results) = << >>
    /\ visited = { Paris }

\* decay, anchor_decay, the relation weights and the weights stored with
\* the relations and the anchors are all between 0.0 and 1.0
FactorsInUnitInterval ==
    /\ config.decay \in 0..10
    /\ config.anchor_decay \in 0..10
    /\ \A r \in DOMAIN config.relation_weights :
         config.relation_weights[r] \in 0..10
    /\ \A i \in 1..Len(store.entity_links) :
         store.entity_links[i].weight \in 0..10
    /\ \A i \in 1..Len(store.entity_anchors) :
         store.entity_anchors[i].weight \in 0..10

\* no source starts with an activation above 1.0
SourcesAtMostOne ==
    \A i \in 1..Len(sources) : sources[i].activation <= Conf(100)

\* C17: every ActivationResult spread / spread_multiple returns has an
\* activation strictly greater than 0 and at most 1
C17_ActivationInUnitInterval ==
    SpreadReturned =>
        \A i \in 1..Len(The(results)) :
            /\ The(results)[i].activation > 0
            /\ The(results)[i].activation <= Conf(100)

\* C17, with the conditions it rests on: a returned activation is never
\* below the threshold, so it is strictly greater than 0 for a positive
\* threshold; it is at most 1 when no source starts above 1.0 and decay,
\* anchor_decay and all relation, link and anchor weights are in [0, 1]
C17_ActivationBounds ==
    SpreadReturned =>
        \A i \in 1..Len(The(results)) :
            /\ The(results)[i].activation >= config.threshold
            /\ config.threshold > 0 => The(results)[i].activation > 0
            /\ (SourcesAtMostOne /\ FactorsInUnitInterval)
                 => The(results)[i].activation <= Conf(100)

\* spread from 1.0 with the default threshold over weights of at most 1.0
\* returned France with activation 0.56; the threshold kept out Germany,
\* which a relation of weight 0.0 leads to
C17_Witness ==
    /\ SpreadReturned
    /\ config.threshold > 0
    /\ SourcesAtMostOne
    /\ FactorsInUnitInterval
    /\ Len(The(results)) = 1
    /\ The(results)[1].activation = Conf(56)
    /\ \E i \in 1..Len(store.entity_links) :
         /\ store.entity_links[i].source_id = Paris
         /\ store.entity_links[i].weight = 0
         /\ store.entity_links[i].target_id \notin ReturnedIds

(***************************************************************************)
(* Properties of the tree operations of EntityProfile                      *)
(***************************************************************************)
\* the method m of a profile has been called and has returned
Called(m) == IsSome(call) /\ The(call).method = m

\* the paths of the two profiles of the call, in the dimension of the call
SelfPosition == get_position(store, The(call).self, The(call).dimension)
OtherPosition == get_position(store, The(call).arg, The(call).dimension)
SelfPath == The(SelfPosition).path_nodes
OtherPath == The(OtherPosition).path_nodes

\* C18: is_descendant_of(L, D) is true if and only if L equals, letter case
\* aside, some element of navigate_from_zero(D); it is false when the
\* entity has no position in D
C18_DescendantIffOnPath ==
    Called("is_descendant_of") =>
        LET nodes == navigate_from_zero(store, The(call).self, The(call).dimension)
        IN  /\ The(returned) <=>
                 \E i \in 1..Len(nodes) : Lower(nodes[i]) = Lower(The(call).arg)
            /\ IsNone(SelfPosition) => The(returned) = FALSE

\* Paris, at Earth > Europe > Mars, was found to descend from "EUROPE"
C18_Witness ==
    /\ Called("is_descendant_of")
    /\ The(call).self = Paris
    /\ The(call).dimension = SPATIAL
    /\ The(call).arg = "EUROPE"
    /\ IsSome(SelfPosition)
    /\ SelfPath = << "Earth", "Europe", "Mars" >>
    /\ The(returned) = TRUE

\* both profiles of the call have a position in the dimension of the call
BothPositioned == IsSome(SelfPosition) /\ IsSome(OtherPosition)

\* k: the length of the longest prefix the two paths have in common, letter
\* case aside
CommonPrefixLength ==
    LET Agree(k) == \A i \in 1..k : Lower(SelfPath[i]) = Lower(OtherPath[i])
        common == { k \in 0..Min(Len(SelfPath), Len(OtherPath)) : Agree(k) }
    IN  CHOOSE k \in common : \A m \in common : m <= k

\* C19: shared_ancestor(other, D) returns none when either entity lacks a
\* position in D or the paths differ at their first node (or one is
\* empty); otherwise it returns the last node of the longest common prefix
\* of the two paths, letter case aside and as self's path writes it, which
\* is the last node of the shorter path when one path is a prefix of the
\* other
C19_SharedAncestorEndsCommonPrefix ==
    Called("shared_ancestor") =>
        IF ~BothPositioned THEN The(returned) = None
        ELSE IF CommonPrefixLength = 0 THEN The(returned) = None
        ELSE /\ The(returned) = Some(SelfPath[CommonPrefixLength])
             /\ CommonPrefixLength = Len(OtherPath)
                  => Lower(The(The(returned))) = Lower(OtherPath[Len(OtherPath)])
             /\ CommonPrefixLength = Len(SelfPath)
                  => The(The(returned)) = SelfPath[Len(SelfPath)]

\* the path of France, EARTH > europe, is a prefix of the path of Paris,
\* earth > Europe > Mars, and Paris was told Europe
C19_Witness ==
    /\ Called("shared_ancestor")
    /\ The(call).self = Paris
    /\ The(call).arg = France
    /\ BothPositioned
    /\ SelfPath = << "earth", "Europe", "Mars" >>
    /\ OtherPath = << "EARTH", "europe" >>
    /\ The(returned) = Some("Europe")

\* C20: hierarchical_distance(other, D) is -1 if and only if either entity
\* lacks a position in D or the two paths have no common prefix; otherwise
\* it is (len(pathA) - k) + (len(pathB) - k), with k the length of the
\* longest common prefix, letter case aside, which is 0 for two identical
\* paths
C20_DistanceThroughCommonPrefix ==
    Called("hierarchical_distance") =>
        /\ The(returned) = -1 <=> (~BothPositioned \/ CommonPrefixLength = 0)
        /\ (BothPositioned /\ CommonPrefixLength > 0)
             => /\ The(returned) = (Len(SelfPath) - CommonPrefixLength)
                                     + (Len(OtherPath) - CommonPrefixLength)
                /\ SelfPath = OtherPath => The(returned) = 0

\* Paris at earth > Europe > Mars and France at Earth > Mars > Europe > Mars
\* share the first node only, and are 2 + 3 steps apart
C20_Witness ==
    /\ Called("hierarchical_distance")
    /\ The(call).self = Paris
    /\ The(call).arg = France
    /\ BothPositioned
    /\ SelfPath = << "earth", "Europe", "Mars" >>
    /\ OtherPath = << "Earth", "Mars", "Europe", "Mars" >>
    /\ CommonPrefixLength = 1
    /\ The(returned) = 5

(***************************************************************************)
(* Properties of the loop of spread_multiple                               *)
(***************************************************************************)
\* C21: within one spread_multiple call each entity id is expanded at most
\* once, and the activation it is expanded with is the best activation
\* recorded for it at the moment it is popped
C21_ExpandedOnceWithBest ==
    \A i \in 1..Len(pops) :
        pops[i].expanded =>
            /\ \A j \in 1..Len(pops) :
                 (j # i /\ pops[j].id = pops[i].id) => ~pops[j].expanded
            /\ pops[i].activation = pops[i].recorded.activation

\* Germany was queued twice, with 0.35 and then with 1.4: it was popped and
\* expanded with 1.4, and its entry of 0.35 was popped later and discarded
C21_Witness ==
    /\ SpreadReturned
    /\ \E i, j \in 1..Len(pops) :
         /\ i < j
         /\ pops[i].id = Germany /\ pops[j].id = Germany
         /\ pops[i].expanded
         /\ pops[i].activation = Conf(140)
         /\ pops[j].activation = Conf(35)
         /\ ~pops[j].fresh /\ ~pops[j].expanded

\* the entry of the dict activations for id at the end of the run
FinalRecord(id) == activations[Recorded(spread_state, id)]

\* the activation a hop along row offers when its start is expanded with a
HopActivation(a, row) ==
    LET relation_weight == IF row.rel \in DOMAIN config.relation_weights
                           THEN config.relation_weights[row.rel] ELSE 5
    IN  (((((a * config.decay) \div 10) * relation_weight) \div 10) * row.weight) \div 10

\* C22: once an entity has been popped and marked visited, a higher
\* activation found for it later is not taken into account: the result
\* reports the activation, path and relations recorded when it was popped
C22_FinalizedStateIsReported ==
    SpreadReturned =>
        \A r \in 1..Len(The(results)) : \A i \in 1..Len(pops) :
            (pops[i].fresh /\ pops[i].id = The(results)[r].id) =>
                /\ The(results)[r].activation = pops[i].recorded.activation
                /\ The(results)[r].path = pops[i].recorded.path
                /\ The(results)[r].relations = pops[i].recorded.relations

\* C22, as the loop does it: an entity that was popped and marked visited
\* is never queued again, but a strictly higher activation found for it
\* later replaces its recorded activation, path and relations, and the
\* result reports the state recorded last; no relation hop that passes the
\* threshold offers more than its target's final record holds
C22_VisitedIsRecordedNotRequeued ==
    /\ [][ \A q \in queue' \ queue : q.id \notin visited' ]_vars
    /\ [](SpreadReturned =>
            /\ \A r \in 1..Len(The(results)) :
                 LET final == FinalRecord(The(results)[r].id)
                 IN  /\ The(results)[r].activation = final.activation
                     /\ The(results)[r].path = final.path
                     /\ The(results)[r].relations = final.relations
            /\ \A i \in 1..Len(pops) :
                 /\ FinalRecord(pops[i].id).activation >= pops[i].recorded.activation
                 /\ FinalRecord(pops[i].id).activation = pops[i].recorded.activation
                      => FinalRecord(pops[i].id) = pops[i].recorded
                 /\ pops[i].expanded =>
                      LET related == get_related(store, pops[i].id, 20)
                      IN  \A k \in 1..Len(related) :
                            HopActivation(pops[i].activation, related[k])
                                >= config.threshold
                              => /\ Recorded(spread_state, related[k].id) # 0
                                 /\ FinalRecord(related[k].id).activation >=
                                      HopActivation(pops[i].activation, related[k]))

\* France was popped with 0.56; Germany, popped after it with 0.36, then
\* reached France with 0.63 over a relation of weight 5.0, and the result
\* reports France with 0.63 at two hops, popped once
C22_Witness ==
    /\ SpreadReturned
    /\ \E r \in 1..Len(The(results)) :
         /\ The(results)[r].id = France
         /\ The(results)[r].activation = Conf(63)
         /\ The(results)[r].path = << Paris, Germany, France >>
    /\ \E i \in 1..Len(pops) :
         /\ pops[i].id = France
         /\ pops[i].fresh
         /\ pops[i].recorded.activation = Conf(56)
    /\ Cardinality({ i \in 1..Len(pops) : pops[i].id = France }) = 1

\* the record of id in the dict acts, if it has one
RecordIn(acts, id) ==
    LET hits == { i \in 1..Len(acts) : acts[i].id = id }
    IN  IF hits = {} THEN None ELSE Some(acts[CHOOSE i \in hits : TRUE])

\* the activations at or above the threshold that the relation hops of an
\* entity expanded with activation a offer to target
Candidates(a, from, target) ==
    LET related == get_related(store, from, 20)
    IN  { HopActivation(a, related[k]) : k \in
            { j \in 1..Len(related) :
                /\ related[j].id = target
                /\ HopActivation(a, related[j]) >= config.threshold } }

\* C23: an entity expanded with activation a offers the neighbour behind a
\* relation r of edge weight w the activation a * decay * weight(r) * w,
\* weight(r) being 0.5 for a name the table does not list; a candidate below
\* the threshold is dropped, and the others replace the neighbour's record
\* only if it has none or they are strictly greater
C23_RelationHopCandidates ==
    [][ (Len(pops') = Len(pops) + 1 /\ pops'[Len(pops')].expanded) =>
          LET p == pops'[Len(pops')]
          IN  \A target \in { store.entities[i].id : i \in 1..Len(store.entities) } :
                LET offered == Candidates(p.activation, p.id, target)
                    before == RecordIn(activations, target)
                    after == RecordIn(activations', target)
                    best == CHOOSE c \in offered : \A d \in offered : c >= d
                IN  IF offered = {}
                    THEN use_anchors \/ after = before
                    ELSE /\ IsSome(after)
                         /\ The(after).activation >= best
                         /\ IsSome(before) => The(after).activation >= The(before).activation
                         /\ ~use_anchors =>
                              IF IsSome(before) /\ ~(best > The(before).activation)
                              THEN after = before
                              ELSE /\ The(after).activation = best
                                   /\ The(after).path = Append(p.recorded.path, target)
                                   /\ Len(The(after).relations) =
                                        Len(p.recorded.relations) + 1 ]_vars

\* without anchors Germany, reached over same_as with 0.35, was expanded and
\* its relation twinned_with, which the table does not list, of weight 5.0
\* gave France 0.35 * 0.7 * 0.5 * 5.0 = 0.6125
C23_Witness ==
    /\ SpreadReturned
    /\ ~use_anchors
    /\ \E i \in 1..Len(pops) :
         /\ pops[i].id = Germany
         /\ pops[i].expanded
         /\ pops[i].activation = Conf(35)
    /\ Recorded(spread_state, France) # 0
    /\ FinalRecord(France).activation = 612500
    /\ FinalRecord(France).relations = << "same_as", "twinned_with" >>

\* the anchor hops of an entity self expanded with activation a, in the
\* order of the lists of plan: hops back to self and hops below the
\* threshold are left out
RECURSIVE PlanHops(_, _, _)
PlanHops(plan, a, self) ==
    IF Len(plan) = 0 THEN << >>
    ELSE LET anchor == plan[1].anchor
             members == plan[1].members
             hops == [ k \in 1..Len(members) |->
                         [ target |-> members[k].entity_id,
                           bank |-> ANCHOR_TO_BANK(anchor.category),
                           activation |->
                             (((((a * config.anchor_decay) \div 10)
                                 * anchor.weight) \div 10)
                                 * members[k].weight) \div 10 ] ]
             Counts(h) == h.target # self /\ h.activation >= config.threshold
         IN  SelectSeq(hops, Counts) \o PlanHops(Tail(plan), a, self)

\* the sum of the activations of the hops to target that belong to bank
RECURSIVE BankTotal(_, _, _)
BankTotal(hops, target, bank) ==
    IF Len(hops) = 0 THEN 0
    ELSE ( IF hops[1].target = target /\ hops[1].bank = bank
           THEN hops[1].activation ELSE 0 )
         + BankTotal(Tail(hops), target, bank)

Unarticled ==
    LET stripped == Strip(The(call).arg)
        articles == { "the ", "a ", "an ", "The ", "A ", "An " }
        lead == { a \in articles : StartsWith(stripped, a) }
    IN  IF lead = {} THEN stripped
        ELSE LET a == CHOOSE x \in lead : TRUE
             IN  SubSeq(stripped, Len(a) + 1, Len(stripped))

\* the ids whose label equals, but for case, the mention as written or the
\* mention without its article
LabelledAsMentioned ==
    { store.entities[i].id : i \in { j \in 1..Len(store.entities) :
        \/ Lower(store.entities[j].label) = Lower(The(call).arg)
        \/ Lower(store.entities[j].label) = Lower(Unarticled) } }

\* C25: _ground_entity returns an entity whose label only contains the
\* mention only when no label equals, but for case, the mention as written
\* or without its leading article; the entity returned has the highest
\* pagerank among the results of the search that found it, and None is
\* returned only when no search on any variant finds an entity
C25_ExactBeforeSubstring ==
    Called("_ground_entity") =>
        LET value == The(returned)
            variants == { The(call).arg, Unarticled, Title(Unarticled) }
        IN  /\ (IsSome(value) /\ The(value) \notin LabelledAsMentioned)
                  => LabelledAsMentioned = {}
            /\ IsSome(value) =>
                 \E v \in variants :
                    \/ The(value) \in TopRanked(store, search_exact(store, v))
                    \/ The(value) \in TopRanked(store, search(store, v))
            /\ IsNone(value) =>
                 \A v \in variants :
                    search_exact(store, v) = {} /\ search(store, v) = {}

(* Properties of the results of verify, continued *)
\* C26: every result verify returns with status SUPPORTED or CONTRADICTED
\* has a confidence of at least 0.6, so effective_status equals status for
\* every result of verify, whenever it is read
C26_VerdictsPassTheGate ==
    (pc = "done" /\ IsSome(result)) =>
        /\ The(result).status \in { SUPPORTED, CONTRADICTED }
             => The(result).confidence >= Conf(60)
        /\ effective_status(The(result)) = The(result).status
        /\ IsSome(read) => The(read) = The(result).status

\* verify returned CONTRADICTED with confidence 0.8 and the caller read
\* CONTRADICTED from effective_status
C26_Witness ==
    /\ pc = "done"
    /\ IsSome(result)
    /\ The(result).status = CONTRADICTED
    /\ The(result).confidence = Conf(80)
    /\ read = Some(CONTRADICTED)


\* C27: for every claim that parses, the claim_type of the result verify
\* returns is the type the parser gave the claim, on every return path
C27_ResultKeepsParsedType ==
    (pc = "done" /\ IsSome(result) /\ IsSome(parsed)) =>
        The(result).claim_type = Some(The(parsed).type)

(* Termination of spread_multiple *)
\* C28: spread_multiple terminates: every pop either discards an entry of a
\* visited entity or adds a new entity to visited, no entry is queued for
\* a visited entity, the loop runs while the queue is not empty and fewer
\* than 2 * max_results entities are visited, and every call returns
C28_SpreadTerminates ==
    /\ [][ Len(pops') = Len(pops) + 1 =>
             LET p == pops'[Len(pops')]
             IN  /\ p.fresh <=> p.id \notin visited
                 /\ p.fresh => visited' = visited \cup { p.id }
                 /\ ~p.fresh => /\ visited' = visited
                                /\ activations' = activations
                                /\ queue' \subseteq queue /\ queue' # queue
                 /\ \A q \in queue' \ queue : q.id \notin visited'
                 /\ queue # {}
                 /\ Cardinality(visited) < 2 * config.max_results ]_vars
    /\ [](pc = "returned" =>
            queue = {} \/ Cardinality(visited) >= 2 * config.max_results)
    /\ (pc = "spreading") ~> (pc = "returned")

\* a call returned after a hop around a cycle of relations had raised the
\* activation of the source Paris, which was visited, above its initial 1.0
C28_Witness ==
    /\ SpreadReturned
    /\ config.max_depth = 10
    /\ Len(sources) = 1
    /\ Paris \in visited /\ France \in visited /\ Germany \in visited
    /\ FinalRecord(Paris).activation > Conf(100)
    /\ Len(FinalRecord(Paris).path) = 4


(* Properties of the paths of the results *)
\* C29: the path of every result of spread_multiple starts with the id of a
\* source, ends with the id of the result's entity, and has one more
\* element than relations
C29_PathFromSourceToEntity ==
    SpreadReturned =>
        \A r \in 1..Len(The(results)) :
            LET res == The(results)[r]
            IN  /\ Len(res.path) = Len(res.relations) + 1
                /\ res.path[1] \in SourceIds
                /\ res.path[Len(res.path)] = res.id

\* France was returned two hops from the source Paris: an anchor hop to
\* Germany, then the relation twinned_with
C29_Witness ==
    /\ SpreadReturned
    /\ \E r \in 1..Len(The(results)) :
         /\ The(results)[r].id = France
         /\ The(results)[r].path = << Paris, Germany, France >>
         /\ The(results)[r].relations = << "anchor:French cities", "twinned_with" >>


(* Properties of the tree operations in either argument order *)
\* C30: hierarchical_distance(A, B, D) equals hierarchical_distance(B, A, D),
\* and it is -1 exactly when shared_ancestor(A, B, D) is None, which covers
\* a missing position and an empty path
C30_DistanceSymmetricAndAgrees ==
    Called("hierarchical_distance") =>
        LET A == The(call).self
            B == The(call).arg
            D == The(call).dimension
        IN  /\ The(returned) = hierarchical_distance(store, B, A, D)
            /\ The(returned) = -1 <=> shared_ancestor(store, A, B, D) = None
            /\ The(returned) = -1 <=> shared_ancestor(store, B, A, D) = None
            /\ (~BothPositioned \/ SelfPath = << >> \/ OtherPath = << >>)
                 => The(returned) = -1

\* Paris, three nodes deep, was asked its distance to France, two nodes
\* deep on the same branch written in another case, and answered 1
C30_Witness ==
    /\ Called("hierarchical_distance")
    /\ The(call).self = Paris
    /\ The(call).arg = France
    /\ BothPositioned
    /\ Len(SelfPath) = 3
    /\ OtherPath = << "EARTH", "europe" >>
    /\ The(returned) = 1
    /\ shared_ancestor(store, Paris, France, The(call).dimension) # None
====
